---------------------------- MODULE Spec2Model ----------------------------
(***************************************************************************)
(* Bonding-curve token contracts of the bonding-curve-alkanes repository:  *)
(* BondingCurveToken (lib.rs), CurveCalculator (bonding_curve.rs),         *)
(* AMMIntegration (amm_integration.rs), OptimizedBondingCurve              *)
(* (bonding_curve_optimized.rs) and BondingCurveFactory (factory.rs), over *)
(* one contract instance's storage.                                        *)
(*                                                                         *)
(* Numbers.  The code computes on u128.  TLC's integers are 32 bits wide,  *)
(* so the model runs the same arithmetic on words of WordBits bits and the *)
(* decimal scales that are tied to the word size are reduced with it       *)
(* (PRECISION, the MAX_PRICE divisor, the default parameters); the orders  *)
(* that decide the code's behaviour are kept: the MAX_PRICE divisor is     *)
(* smaller than PRECISION, PRECISION is a multiple of BASIS_POINTS, and    *)
(* 2 * BASIS_POINTS * PRECISION fits in a word.  BASIS_POINTS keeps its    *)
(* value.                                                                  *)
(*                                                                         *)
(* Failure.  A handler that returns Err, or panics, stops where it is: the *)
(* storage writes it made before that point stay, as they do when the      *)
(* handlers are called as in src/tests/mod.rs.  An arithmetic operator     *)
(* that is not checked in the source panics on overflow in a build with    *)
(* overflow checks and wraps in a build without; the build is chosen in    *)
(* Init and never changes.                                                 *)
(*                                                                         *)
(* Functions.  The pricing, graduation and distribution functions that no  *)
(* handler reaches with every input are also called on their own, as the   *)
(* unit tests of the source call them: Init then has no contract deployed  *)
(* ("calculator") and a behaviour is one call, whose arguments and result  *)
(* are recorded in last.                                                   *)
(***************************************************************************)
EXTENDS Integers, Naturals, Sequences, FiniteSets, TLC

VARIABLES
    store,      \* the contract instance's storage, one field per key
    contract,   \* which contract is deployed on this storage; "calculator":
                \* none, a function of the calculator is called on its own
    build,      \* "debug": unchecked overflow panics; "release": it wraps
    calls,      \* number of calls handled so far
    last        \* the last call: operation, inputs, result, steps, storage before

vars == <<store, contract, build, calls, last>>

---------------------------------------------------------------------------
(* Bounds of the model *)

WordBits == 29          \* width of the model's machine word (u128 in the code)
MaxCalls == 4           \* calls handled in one behaviour

(* Program constants *)

U128_MAX == 2^WordBits - 1
Modulus == 2^WordBits

PRECISION == 10000
BASIS_POINTS == 10000
MAX_PRICE_DIVISOR == 1000
MAX_PRICE == U128_MAX \div MAX_PRICE_DIVISOR

---------------------------------------------------------------------------
(* Results: Ok(v), Err(message), and a panic *)

Ok(v) == [ok |-> TRUE, v |-> v, err |-> ""]
Err(e) == [ok |-> FALSE, v |-> 0, err |-> e]
Panic == Err("panic")
IsPanic(r) == ~r.ok /\ r.err = "panic"

(* u128 arithmetic *)

checked_add(a, b) == IF a + b > U128_MAX THEN Err("overflow") ELSE Ok(a + b)

checked_sub(a, b) == IF b > a THEN Err("overflow") ELSE Ok(a - b)

MulFits(a, b) == a = 0 \/ b <= U128_MAX \div a

checked_mul(a, b) == IF MulFits(a, b) THEN Ok(a * b) ELSE Err("overflow")

saturating_mul(a, b) == IF MulFits(a, b) THEN a * b ELSE U128_MAX

saturating_sub(a, b) == IF b > a THEN 0 ELSE a - b

RECURSIVE wrapping_mul(_, _)
wrapping_mul(a, b) ==
    IF b = 0 THEN 0
    ELSE LET half == wrapping_mul(a, b \div 2)
             twice == (2 * half) % Modulus
         IN  IF b % 2 = 1 THEN (twice + a) % Modulus ELSE twice

(* the operators `*`, `+` and `-` of the source, which are not checked *)
Mul(a, b) ==
    IF MulFits(a, b) THEN Ok(a * b)
    ELSE IF build = "debug" THEN Panic ELSE Ok(wrapping_mul(a, b))

Add(a, b) ==
    IF a + b <= U128_MAX THEN Ok(a + b)
    ELSE IF build = "debug" THEN Panic ELSE Ok((a + b) % Modulus)

Sub(a, b) ==
    IF b <= a THEN Ok(a - b)
    ELSE IF build = "debug" THEN Panic ELSE Ok((a - b) + Modulus)

(* v bound to a name for the rest of a computation *)
With(v, Rest(_)) == Rest(v)

Min(a, b) == IF a <= b THEN a ELSE b

---------------------------------------------------------------------------
(* CurveCalculator: price function *)

(* A binary exponentiation that multiplies the result in for the bits of   *)
(* the exponent that are clear                                             *)
RECURSIVE PowerLoopClearBits(_, _, _)
PowerLoopClearBits(result, base_power, exp) ==
    IF exp = 0 THEN Ok(result)
    ELSE
        LET m1 == IF exp % 2 = 0 THEN checked_mul(result, base_power) ELSE Ok(result)
        IN  IF ~m1.ok THEN m1
            ELSE
              LET r1 == IF exp % 2 = 0 THEN m1.v \div PRECISION ELSE result
                  m2 == IF exp > 1 THEN checked_mul(base_power, base_power)
                                   ELSE Ok(base_power)
              IN  IF ~m2.ok THEN m2
                  ELSE
                    LET b1 == IF exp > 1 THEN m2.v \div PRECISION ELSE base_power
                    IN  IF r1 > MAX_PRICE \/ b1 > MAX_PRICE THEN Ok(MAX_PRICE)
                        ELSE PowerLoopClearBits(r1, b1, exp \div 2)

(* The loop of fixed_point_power *)
RECURSIVE PowerLoop(_, _, _)
PowerLoop(result, base_power, exp) ==
    IF exp = 0 THEN Ok(result)
    ELSE
        LET m1 == IF exp % 2 = 1 THEN checked_mul(result, base_power) ELSE Ok(result)
        IN  IF ~m1.ok THEN m1
            ELSE
              LET r1 == IF exp % 2 = 1 THEN m1.v \div PRECISION ELSE result
                  m2 == IF exp > 1 THEN checked_mul(base_power, base_power)
                                   ELSE Ok(base_power)
              IN  IF ~m2.ok THEN m2
                  ELSE
                    LET b1 == IF exp > 1 THEN m2.v \div PRECISION ELSE base_power
                    IN  IF r1 > MAX_PRICE \/ b1 > MAX_PRICE THEN Ok(MAX_PRICE)
                        ELSE PowerLoop(r1, b1, exp \div 2)

fixed_point_power(base, exponent, denominator) ==
    IF exponent = 0 THEN Ok(PRECISION)
    ELSE LET bp == Mul(base, PRECISION)
         IN  IF ~bp.ok THEN bp
             ELSE PowerLoop(PRECISION, bp.v \div denominator, exponent)

price_at_supply_fixed_point(supply, params) ==
    IF supply = 0 THEN Ok(params.base_price)
    ELSE
      LET growth_multiplier == Add(BASIS_POINTS, params.growth_rate)
      IN  IF ~growth_multiplier.ok THEN growth_multiplier
          ELSE
            With(fixed_point_power(growth_multiplier.v, supply, BASIS_POINTS),
                 LAMBDA price_multiplier :
            IF ~price_multiplier.ok THEN price_multiplier
            ELSE
              LET p == checked_mul(params.base_price, price_multiplier.v)
              IN  IF ~p.ok THEN Err("Overflow in price calculation")
                  ELSE Ok(Min(p.v \div PRECISION, MAX_PRICE)))

price_at_supply(supply, params) == price_at_supply_fixed_point(supply, params)

(* A check_graduation_criteria whose market-cap criterion is strict *)
check_graduation_criteria_strict(current_supply, base_reserves, params) ==
    With(price_at_supply_fixed_point(current_supply, params), LAMBDA pr :
    IF IsPanic(pr) THEN Panic
    ELSE
    With(IF pr.ok THEN pr.v ELSE 0, LAMBDA current_price :
    With(saturating_mul(current_supply, current_price) \div PRECISION, LAMBDA market_cap :
    LET min_reserves == params.graduation_threshold \div 2
    IN  IF market_cap > params.graduation_threshold THEN Ok(1)
        ELSE IF base_reserves >= min_reserves THEN Ok(1)
        ELSE With(Mul(market_cap, 30), LAMBDA tv :
             IF ~tv.ok THEN Panic
             ELSE IF base_reserves >= tv.v \div 100
                     /\ current_supply >= params.max_supply \div 20 THEN Ok(1)
             ELSE Ok(0)))))

(* CurveCalculator::check_graduation_criteria: Ok(1) for true, Ok(0) for   *)
(* false; a panic of the price computation is not caught by unwrap_or.     *)
check_graduation_criteria(current_supply, base_reserves, params) ==
    With(price_at_supply_fixed_point(current_supply, params), LAMBDA pr :
    IF IsPanic(pr) THEN Panic
    ELSE
    With(IF pr.ok THEN pr.v ELSE 0, LAMBDA current_price :
    With(saturating_mul(current_supply, current_price) \div PRECISION, LAMBDA market_cap :
    LET min_reserves == params.graduation_threshold \div 2
    IN  IF market_cap >= params.graduation_threshold THEN Ok(1)
        ELSE IF base_reserves >= min_reserves THEN Ok(1)
        ELSE With(Mul(market_cap, 30), LAMBDA tv :
             IF ~tv.ok THEN Panic
             ELSE IF base_reserves >= tv.v \div 100
                     /\ current_supply >= params.max_supply \div 20 THEN Ok(1)
             ELSE Ok(0)))))

(* One pass of the summation loop of calculate_precise_buy_cost and of     *)
(* calculate_precise_sell_return: the price at from_supply + i is added to *)
(* total, the result so far                                                *)
PreciseStep(total, i, from_supply, params) ==
    LET supply_at_token == Add(from_supply, i)
    IN  IF ~supply_at_token.ok THEN Panic
        ELSE With(price_at_supply_fixed_point(supply_at_token.v, params),
                  LAMBDA price :
             IF ~price.ok THEN price
             ELSE LET sum == checked_add(total.v, price.v)
                  IN  IF ~sum.ok THEN Err("overflow") ELSE sum)

(* The loop, for i = done .. count - 1; it ends at the first failure *)
RECURSIVE PreciseLoop(_, _, _, _, _)
PreciseLoop(total, done, count, from_supply, params) ==
    IF ~total.ok \/ done >= count THEN total
    ELSE PreciseLoop(PreciseStep(total, done, from_supply, params),
                     done + 1, count, from_supply, params)

calculate_precise_buy_cost(current_supply, tokens_to_buy, params) ==
    PreciseLoop(Ok(0), 0, tokens_to_buy, current_supply, params)

calculate_precise_sell_return(new_supply, tokens_to_sell, params) ==
    PreciseLoop(Ok(0), 0, tokens_to_sell, new_supply, params)

(* (start_price + end_price) / 2 * tokens, the sum unchecked *)
TrapezoidTotal(start_price, end_price, tokens) ==
    IF ~start_price.ok THEN start_price
    ELSE IF ~end_price.ok THEN end_price
    ELSE LET sum == Add(start_price.v, end_price.v)
         IN  IF ~sum.ok THEN Panic
             ELSE LET total == checked_mul(sum.v \div 2, tokens)
                  IN  IF ~total.ok THEN Err("overflow") ELSE total

(* A calculate_buy_price without the case of no tokens *)
calculate_buy_price_no_zero_case(current_supply, tokens_to_buy, params) ==
    LET new_supply == checked_add(current_supply, tokens_to_buy)
    IN  IF ~new_supply.ok THEN Err("overflow")
        ELSE IF new_supply.v > params.max_supply
             THEN Err("Purchase would exceed maximum supply")
        ELSE IF tokens_to_buy <= 100 \/ current_supply < 1000
             THEN calculate_precise_buy_cost(current_supply, tokens_to_buy, params)
        ELSE With(price_at_supply_fixed_point(current_supply, params), LAMBDA start_price :
             With(price_at_supply_fixed_point(new_supply.v - 1, params), LAMBDA end_price :
             TrapezoidTotal(start_price, end_price, tokens_to_buy)))

(* A calculate_buy_price that also refuses the purchase that reaches the   *)
(* maximum supply exactly                                                  *)
calculate_buy_price_below_cap(current_supply, tokens_to_buy, params) ==
    IF tokens_to_buy = 0 THEN Ok(0)
    ELSE
    LET new_supply == checked_add(current_supply, tokens_to_buy)
    IN  IF ~new_supply.ok THEN Err("overflow")
        ELSE IF new_supply.v >= params.max_supply
             THEN Err("Purchase would exceed maximum supply")
        ELSE IF tokens_to_buy <= 100 \/ current_supply < 1000
             THEN calculate_precise_buy_cost(current_supply, tokens_to_buy, params)
        ELSE With(price_at_supply_fixed_point(current_supply, params), LAMBDA start_price :
             With(price_at_supply_fixed_point(new_supply.v - 1, params), LAMBDA end_price :
             TrapezoidTotal(start_price, end_price, tokens_to_buy)))

(* CurveCalculator::calculate_buy_price *)
calculate_buy_price(current_supply, tokens_to_buy, params) ==
    IF tokens_to_buy = 0 THEN Ok(0)
    ELSE
    LET new_supply == checked_add(current_supply, tokens_to_buy)
    IN  IF ~new_supply.ok THEN Err("overflow")
        ELSE IF new_supply.v > params.max_supply
             THEN Err("Purchase would exceed maximum supply")
        ELSE IF tokens_to_buy <= 100 \/ current_supply < 1000
             THEN calculate_precise_buy_cost(current_supply, tokens_to_buy, params)
        ELSE With(price_at_supply_fixed_point(current_supply, params), LAMBDA start_price :
             With(price_at_supply_fixed_point(new_supply.v - 1, params), LAMBDA end_price :
             TrapezoidTotal(start_price, end_price, tokens_to_buy)))

(* A return with a premium of 2% in place of the discount *)
DiscountedReturnPremium(theoretical_return) ==
    IF ~theoretical_return.ok THEN theoretical_return
    ELSE LET m == Mul(theoretical_return.v, 102)
         IN  IF ~m.ok THEN Panic ELSE Ok(m.v \div 100)

(* theoretical_return * 98 / 100, the product unchecked *)
DiscountedReturn(theoretical_return) ==
    IF ~theoretical_return.ok THEN theoretical_return
    ELSE LET m == Mul(theoretical_return.v, 98)
         IN  IF ~m.ok THEN Panic ELSE Ok(m.v \div 100)

(* CurveCalculator::calculate_sell_price *)
calculate_sell_price(current_supply, tokens_to_sell, params) ==
    IF tokens_to_sell = 0 THEN Ok(0)
    ELSE IF tokens_to_sell > current_supply
         THEN Err("Cannot sell more tokens than current supply")
    ELSE
    LET new_supply == current_supply - tokens_to_sell
    IN  IF tokens_to_sell <= 100 \/ new_supply < 1000
        THEN With(calculate_precise_sell_return(new_supply, tokens_to_sell, params),
                  LAMBDA theoretical_return : DiscountedReturn(theoretical_return))
        ELSE With(price_at_supply_fixed_point(new_supply, params), LAMBDA start_price :
             With(price_at_supply_fixed_point(current_supply - 1, params),
                  LAMBDA end_price :
             With(TrapezoidTotal(start_price, end_price, tokens_to_sell),
                  LAMBDA theoretical_return : DiscountedReturn(theoretical_return))))

---------------------------------------------------------------------------
(* Curve parameters and storage *)

BUSD == "BUSD"
FrBtc == "FrBtc"

(* BaseToken::from_u128 *)
BaseTokenFromU128(value) ==
    IF value = 0 THEN <<BUSD>> ELSE IF value = 1 THEN <<FrBtc>> ELSE << >>

DefaultBasePrice == 100
DefaultGrowthRate == 1500
DefaultGraduationThreshold == 100000
DefaultMaxSupply == 10000000

(* CurveParams::default() *)
DefaultParams ==
    [base_price |-> DefaultBasePrice, growth_rate |-> DefaultGrowthRate,
     graduation_threshold |-> DefaultGraduationThreshold, base_token |-> BUSD,
     max_supply |-> DefaultMaxSupply]

(* Storage before any call: every key is empty; get_value of an empty key  *)
(* reads 0.  A byte-string key is a sequence that is empty or holds one    *)
(* value.                                                                  *)
EmptyStore ==
    [initialized      |-> FALSE,  \* "/initialized"
     factory          |-> << >>,  \* "/factory"
     name_symbol      |-> FALSE,  \* "/name", "/symbol" written
     curve_params     |-> << >>,  \* "/curve_params"
     totalsupply      |-> 0,      \* "/totalsupply"
     base_reserves    |-> 0,      \* "/base_reserves"
     graduated        |-> 0,      \* "/graduated"
     amm_pool         |-> 0,      \* "/amm_pool"
     amm_pool_address |-> 0,      \* "/amm_pool_address"
     graduation_block |-> 0,      \* "/graduation_block"
     lp_tokens        |-> 0,      \* "/lp_tokens"
     data_set         |-> FALSE,  \* "/data" written
     price_cache      |-> << >>,  \* "/price_cache": bucket -> stored bytes
     curve_count      |-> 0,      \* "/curve_count"
     factory_fee      |-> 0,      \* "/factory_fee"
     accumulated_fees |-> 0,      \* "/accumulated_fees"
     curves_registry  |-> << >>]  \* "/curves_registry": index + 1 -> curve

(* u128::to_le_bytes and u128::from_le_bytes, at the model's word size *)
WordBytes == (WordBits + 7) \div 8

to_le_bytes(v) == [i \in 1..WordBytes |-> (v \div (256 ^ (i - 1))) % 256]

(* from_le_bytes reading the bytes in the opposite order, the value cut to *)
(* the word                                                                *)
RECURSIVE from_be_bytes_from(_, _)
from_be_bytes_from(bytes, i) ==
    IF i < 1 THEN 0
    ELSE bytes[i] + 256 * (from_be_bytes_from(bytes, i - 1) % 2^(WordBits - 8))

from_be_bytes(bytes) == from_be_bytes_from(bytes, Len(bytes))

RECURSIVE from_le_bytes_from(_, _)
from_le_bytes_from(bytes, i) ==
    IF i > Len(bytes) THEN 0
    ELSE bytes[i] + 256 * from_le_bytes_from(bytes, i + 1)

from_le_bytes(bytes) == from_le_bytes_from(bytes, 1)

(* CurveCalculator::is_graduated, get_curve_params *)
is_graduated(st) == st.graduated = 1

get_curve_params(st) ==
    IF st.curve_params = << >> THEN DefaultParams ELSE st.curve_params[1]

---------------------------------------------------------------------------
(* AMMIntegration *)

(* What the Oyl AMM answers during one graduation attempt *)
PoolIds == {1, 2}
LpAmounts == {0, 7, U128_MAX}

AmmOk(pool, lp) ==
    [create_ok |-> TRUE, pool |-> pool, at_ok |-> TRUE, pair |-> "expected",
     initialized |-> TRUE, add_ok |-> TRUE, lp |-> lp]

AmmAnswers ==
    {AmmOk(1, lp) : lp \in LpAmounts}
    \cup {AmmOk(p, 1) : p \in PoolIds \ {1}}
    \cup {[AmmOk(1, 7) EXCEPT !.create_ok = FALSE],
          [AmmOk(1, 7) EXCEPT !.at_ok = FALSE],
          [AmmOk(1, 7) EXCEPT !.pair = "swapped"],
          [AmmOk(1, 7) EXCEPT !.pair = "other"],
          [AmmOk(1, 7) EXCEPT !.initialized = FALSE],
          [AmmOk(1, 7) EXCEPT !.add_ok = FALSE]}

LP_STRATEGY_FULL_BURN == 0
LP_STRATEGY_COMMUNITY == 1
LP_STRATEGY_CREATOR == 2
LP_STRATEGY_DAO == 3

get_lp_distribution_strategy == 0

Ratios(t, b) == [ok |-> TRUE, token_liquidity |-> t, base_liquidity |-> b, err |-> ""]
RatiosPanic == [ok |-> FALSE, token_liquidity |-> 0, base_liquidity |-> 0, err |-> "panic"]

calculate_pool_ratios(token_supply, base_reserves, params) ==
    With(price_at_supply(token_supply, params), LAMBDA pr :
    LET t20 == Mul(token_supply, 20)
    IN  IF ~t20.ok \/ IsPanic(pr) THEN RatiosPanic
        ELSE
          LET token_liquidity == t20.v \div 100
              current_price == IF pr.ok THEN pr.v ELSE params.base_price
              needed == Mul(token_liquidity, current_price)
          IN  IF ~needed.ok THEN RatiosPanic
              ELSE Ratios(token_liquidity,
                          IF needed.v \div PRECISION <= base_reserves
                          THEN needed.v \div PRECISION ELSE base_reserves))

(* A two-bucket split that takes the second bucket as its own percentage  *)
(* of the total rather than as the remainder.                             *)
SplitTwoRounded(lp_tokens, pct, first, second) ==
    LET m == Mul(lp_tokens, pct)
        n == Mul(lp_tokens, 100 - pct)
    IN  IF ~m.ok \/ ~n.ok THEN [ok |-> FALSE, buckets |-> << >>]
        ELSE [ok |-> TRUE,
              buckets |-> <<[to |-> first, amount |-> m.v \div 100],
                            [to |-> second, amount |-> n.v \div 100]>>]

(* The two-bucket split of the full-burn strategy and of the fallback arm *)
SplitTwo(lp_tokens, pct, first, second) ==
    LET m == Mul(lp_tokens, pct)
    IN  IF ~m.ok THEN [ok |-> FALSE, buckets |-> << >>]
        ELSE [ok |-> TRUE,
              buckets |-> <<[to |-> first, amount |-> m.v \div 100],
                            [to |-> second, amount |-> lp_tokens - m.v \div 100]>>]

(* The three-bucket split of the other strategies *)
SplitThree(lp_tokens, pct1, pct2, first, second, third) ==
    LET m1 == Mul(lp_tokens, pct1)
        m2 == Mul(lp_tokens, pct2)
    IN  IF ~m1.ok \/ ~m2.ok THEN [ok |-> FALSE, buckets |-> << >>]
        ELSE LET rest == Sub(lp_tokens, m1.v \div 100)
             IN  IF ~rest.ok THEN [ok |-> FALSE, buckets |-> << >>]
                 ELSE LET rest2 == Sub(rest.v, m2.v \div 100)
                      IN  IF ~rest2.ok THEN [ok |-> FALSE, buckets |-> << >>]
                          ELSE [ok |-> TRUE,
                                buckets |-> <<[to |-> first, amount |-> m1.v \div 100],
                                              [to |-> second, amount |-> m2.v \div 100],
                                              [to |-> third, amount |-> rest2.v]>>]

LpBuckets(strategy, lp_tokens) ==
    IF strategy = LP_STRATEGY_FULL_BURN THEN SplitTwo(lp_tokens, 80, "burn", "holders")
    ELSE IF strategy = LP_STRATEGY_COMMUNITY
         THEN SplitThree(lp_tokens, 60, 20, "community", "holders", "creator")
    ELSE IF strategy = LP_STRATEGY_CREATOR
         THEN SplitThree(lp_tokens, 40, 40, "creator", "holders", "community")
    ELSE IF strategy = LP_STRATEGY_DAO
         THEN SplitThree(lp_tokens, 50, 30, "dao", "holders", "community")
    ELSE SplitTwo(lp_tokens, 80, "burn", "holders")

(* AMMIntegration::distribute_lp_tokens: the buckets it sends, or an error *)
distribute_lp_tokens(lp_tokens) ==
    IF lp_tokens = 0 THEN [res |-> Err("No LP tokens to distribute"), buckets |-> << >>]
    ELSE LET b == LpBuckets(get_lp_distribution_strategy, lp_tokens)
         IN  IF b.ok THEN [res |-> Ok(0), buckets |-> b.buckets]
             ELSE [res |-> Panic, buckets |-> << >>]

(* distribute_lp_tokens with the strategy that get_lp_distribution_strategy *)
(* returned                                                                *)
DistributeWith(strategy, lp_tokens) ==
    IF lp_tokens = 0 THEN [res |-> Err("No LP tokens to distribute"), buckets |-> << >>]
    ELSE LET b == LpBuckets(strategy, lp_tokens)
         IN  IF b.ok THEN [res |-> Ok(0), buckets |-> b.buckets]
             ELSE [res |-> Panic, buckets |-> << >>]

(* AMMIntegration::check_emergency_graduation *)
EmergencyThreshold == 4320
EmergencyMinSupply == 1000000
EmergencyMinReserves == 100000000

(* A check_emergency_graduation that asks for more than the threshold *)
check_emergency_graduation_later(current_block, launch_block, token_supply, base_reserves) ==
    LET blocks_elapsed == saturating_sub(current_block, launch_block)
    IN  IF blocks_elapsed > EmergencyThreshold
        THEN token_supply >= EmergencyMinSupply /\ base_reserves >= EmergencyMinReserves
        ELSE FALSE

check_emergency_graduation(current_block, launch_block, token_supply, base_reserves) ==
    LET blocks_elapsed == saturating_sub(current_block, launch_block)
    IN  IF blocks_elapsed >= EmergencyThreshold
        THEN token_supply >= EmergencyMinSupply /\ base_reserves >= EmergencyMinReserves
        ELSE FALSE

(* call_oyl_factory_create_pool: create the pool, then compare its pair    *)
(* with the pair asked for, token order included                           *)
call_oyl_factory_create_pool(amm) ==
    IF ~amm.create_ok THEN Err("create_pool failed")
    ELSE IF ~amm.at_ok THEN Err("Pool::at failed")
    ELSE IF amm.pair # "expected" THEN Err("Pool creation verification failed")
    ELSE Ok(amm.pool)

(* A verify_pool_creation that does not ask whether the pool is            *)
(* initialized                                                             *)
verify_pool_creation_any_state(amm) ==
    IF ~amm.at_ok THEN Err("Pool::at failed")
    ELSE IF amm.pair \in {"expected", "swapped"} THEN Ok(1)
    ELSE Ok(0)

(* verify_pool_creation: Ok(1) when the pair matches in either order and   *)
(* the pool is initialized                                                 *)
verify_pool_creation(amm) ==
    IF ~amm.at_ok THEN Err("Pool::at failed")
    ELSE IF amm.pair \in {"expected", "swapped"} /\ amm.initialized THEN Ok(1)
    ELSE Ok(0)

verify_token_balance == TRUE

transfer_tokens_to_pool(amm) ==
    IF ~amm.at_ok THEN Err("Pool::at failed")
    ELSE IF ~verify_token_balance THEN Err("Insufficient bonding curve tokens for pool")
    ELSE Ok(0)

add_initial_liquidity(amm) ==
    IF ~amm.at_ok THEN Err("Pool::at failed")
    ELSE IF ~amm.add_ok THEN Err("add_liquidity failed")
    ELSE IF amm.lp = 0 THEN Err("Failed to receive LP tokens from pool")
    ELSE Ok(amm.lp)

(* create_oyl_pool_atomic: the result and the steps done, in order *)
Steps(res, trace, lp) == [res |-> res, trace |-> trace, lp |-> lp]

create_oyl_pool_atomic(amm) ==
    LET created == call_oyl_factory_create_pool(amm)
    IN  IF ~created.ok THEN Steps(created, << >>, 0)
        ELSE
        LET verified == verify_pool_creation(amm)
            t1 == <<"create_pool">>
        IN  IF ~verified.ok THEN Steps(verified, t1, 0)
            ELSE IF verified.v = 0
                 THEN Steps(Err("Pool creation verification failed"), t1, 0)
            ELSE
            LET moved == transfer_tokens_to_pool(amm)
                t2 == Append(t1, "verify_pool")
            IN  IF ~moved.ok THEN Steps(moved, t2, 0)
                ELSE
                LET added == add_initial_liquidity(amm)
                    t3 == Append(t2, "transfer")
                IN  IF ~added.ok THEN Steps(added, t3, 0)
                    ELSE
                    LET dist == distribute_lp_tokens(added.v)
                        t4 == Append(t3, "add_liquidity")
                    IN  IF ~dist.res.ok THEN Steps(dist.res, t4, added.v)
                        ELSE Steps(Ok(created.v),
                                   Append(t4, "distribute_lp_tokens"), added.v)

(* The outcome of a handler: storage after, result, steps done *)
Out(st, res, trace) == [st |-> st, res |-> res, trace |-> trace]

(* graduate_to_amm marking the curve as graduated before the pool exists *)
graduate_to_amm_flag_first(st, token_supply, amm) ==
    IF is_graduated(st) THEN Out(st, Err("Bonding curve has already graduated"), << >>)
    ELSE
    LET params == get_curve_params(st)
        base_reserves == st.base_reserves
        met == check_graduation_criteria(token_supply, base_reserves, params)
    IN  IF ~met.ok THEN Out(st, met, << >>)
        ELSE IF met.v = 0 THEN Out(st, Err("Graduation criteria not met"), << >>)
        ELSE
        LET ratios == calculate_pool_ratios(token_supply, base_reserves, params)
            st1 == [st EXCEPT !.graduated = 1]
        IN  IF ~ratios.ok THEN Out(st, Panic, << >>)
            ELSE
            LET pool == create_oyl_pool_atomic(amm)
            IN  IF ~pool.res.ok THEN Out(st1, pool.res, <<"set_graduated">> \o pool.trace)
                ELSE Out([st1 EXCEPT !.amm_pool_address = pool.res.v,
                                     !.graduation_block = 0],
                         Ok(pool.res.v),
                         <<"set_graduated">> \o pool.trace
                             \o <<"set_amm_pool_address", "set_graduation_block">>)

(* graduate_to_amm recording the pool as soon as the factory has created it *)
graduate_to_amm_pool_first(st, token_supply, amm) ==
    IF is_graduated(st) THEN Out(st, Err("Bonding curve has already graduated"), << >>)
    ELSE
    LET params == get_curve_params(st)
        base_reserves == st.base_reserves
        met == check_graduation_criteria(token_supply, base_reserves, params)
    IN  IF ~met.ok THEN Out(st, met, << >>)
        ELSE IF met.v = 0 THEN Out(st, Err("Graduation criteria not met"), << >>)
        ELSE
        LET ratios == calculate_pool_ratios(token_supply, base_reserves, params)
        IN  IF ~ratios.ok THEN Out(st, Panic, << >>)
            ELSE
            LET pool == create_oyl_pool_atomic(amm)
                st1 == IF pool.trace # << >>
                       THEN [st EXCEPT !.amm_pool_address = amm.pool] ELSE st
            IN  IF ~pool.res.ok THEN Out(st1, pool.res, pool.trace)
                ELSE Out([st1 EXCEPT !.graduated = 1, !.graduation_block = 0],
                         Ok(pool.res.v),
                         pool.trace \o <<"set_graduated", "set_amm_pool_address",
                                         "set_graduation_block">>)

(* AMMIntegration::graduate_to_amm *)
graduate_to_amm(st, token_supply, amm) ==
    IF is_graduated(st) THEN Out(st, Err("Bonding curve has already graduated"), << >>)
    ELSE
    LET params == get_curve_params(st)
        base_reserves == st.base_reserves
    IN  With(check_graduation_criteria(token_supply, base_reserves, params), LAMBDA met :
        IF ~met.ok THEN Out(st, met, << >>)
        ELSE IF met.v = 0 THEN Out(st, Err("Graduation criteria not met"), << >>)
        ELSE
        With(calculate_pool_ratios(token_supply, base_reserves, params), LAMBDA ratios :
        IF ~ratios.ok THEN Out(st, Panic, << >>)
        ELSE
        With(create_oyl_pool_atomic(amm), LAMBDA pool :
        IF ~pool.res.ok THEN Out(st, pool.res, pool.trace)
        ELSE Out([st EXCEPT !.graduated = 1,
                            !.amm_pool_address = pool.res.v,
                            !.graduation_block = 0],
                 Ok(pool.res.v),
                 pool.trace \o <<"set_graduated", "set_amm_pool_address",
                                 "set_graduation_block">>))))

---------------------------------------------------------------------------
(* OptimizedBondingCurve: pricing with the price cache *)

(* A price computation's result and the cache it leaves *)
Priced(res, cache) == [res |-> res, cache |-> cache]

CacheKey(supply) == (supply \div 1000) * 1000

get_cached_price(cache, supply) ==
    IF CacheKey(supply) \in DOMAIN cache /\ Len(cache[CacheKey(supply)]) >= WordBytes
    THEN <<from_le_bytes(cache[CacheKey(supply)])>>
    ELSE << >>

set_cached_price(cache, supply, price) ==
    [k \in DOMAIN cache \cup {CacheKey(supply)} |->
        IF k = CacheKey(supply) THEN to_le_bytes(price) ELSE cache[k]]

OptimizedMaxPrice == U128_MAX \div 1000

(* The loop of iterative_price_calculation with n rounds left.  A round    *)
(* that leaves the price as it was is followed only by rounds that do the  *)
(* same, so the loop's result is known there.                              *)
RECURSIVE IterativeLoop(_, _, _)
IterativeLoop(price, n, growth_factor) ==
    IF n = 0 THEN Ok(price)
    ELSE LET m == checked_mul(price, growth_factor)
         IN  IF ~m.ok THEN Err("overflow")
             ELSE IF m.v \div 10000 > OptimizedMaxPrice THEN Ok(OptimizedMaxPrice)
             ELSE IF m.v \div 10000 = price THEN Ok(price)
             ELSE IterativeLoop(m.v \div 10000, n - 1, growth_factor)

iterative_price_calculation(supply, params) ==
    LET growth_factor == Add(10000, params.growth_rate)
    IN  IF ~growth_factor.ok THEN Panic
        ELSE IterativeLoop(params.base_price, supply, growth_factor.v)

(* logarithmic_price_approximation computes base_price * (gf/10000)^supply *)
(* in f64 and clamps it.  It is called with supply > 10000 only.  With     *)
(* growth rate 0 the power is exactly 1.0; with a growth rate of 736 bps   *)
(* or more the power is +inf for every supply > 10000, and min() and the   *)
(* cast give the ceiling (also for base_price = 0, where the product is    *)
(* NaN).  The model calls it with these growth rates only.                 *)
logarithmic_price_approximation(supply, params) ==
    LET growth_factor == Add(10000, params.growth_rate)
    IN  IF ~growth_factor.ok THEN Panic
        ELSE IF growth_factor.v = 10000
             THEN Ok(Min(params.base_price, OptimizedMaxPrice))
        ELSE Ok(OptimizedMaxPrice)

optimized_price_calculation(supply, params) ==
    IF supply = 0 THEN Ok(params.base_price)
    ELSE IF supply > 10000 THEN logarithmic_price_approximation(supply, params)
    ELSE iterative_price_calculation(supply, params)

calculate_price_at_supply(cache, supply, params) ==
    IF supply = 0 THEN Priced(Ok(params.base_price), cache)
    ELSE IF get_cached_price(cache, supply) # << >>
         THEN Priced(Ok(get_cached_price(cache, supply)[1]), cache)
    ELSE With(optimized_price_calculation(supply, params), LAMBDA price :
         IF ~price.ok THEN Priced(price, cache)
         ELSE Priced(price, set_cached_price(cache, supply, price.v)))

OptCalculateBuyPrice(cache, current_supply, tokens_to_buy, params) ==
    IF tokens_to_buy = 0 THEN Priced(Ok(0), cache)
    ELSE
    LET new_supply == checked_add(current_supply, tokens_to_buy)
    IN  IF ~new_supply.ok THEN Priced(new_supply, cache)
        ELSE IF new_supply.v > params.max_supply
             THEN Priced(Err("Purchase would exceed maximum supply"), cache)
        ELSE
        With(calculate_price_at_supply(cache, current_supply, params), LAMBDA start :
        IF ~start.res.ok THEN start
        ELSE IF tokens_to_buy <= 1000
             THEN Priced(checked_mul(start.res.v, tokens_to_buy), start.cache)
        ELSE
        With(calculate_price_at_supply(start.cache, new_supply.v, params), LAMBDA end :
        IF ~end.res.ok THEN end
        ELSE LET sum == checked_add(start.res.v, end.res.v)
             IN  IF ~sum.ok THEN Priced(sum, end.cache)
                 ELSE Priced(checked_mul(sum.v \div 2, tokens_to_buy), end.cache)))

(* price * 99 / 100 * tokens, each product checked *)
DiscountedPayout(price, tokens_to_sell) ==
    LET d == checked_mul(price, 99)
    IN  IF ~d.ok THEN d ELSE checked_mul(d.v \div 100, tokens_to_sell)

OptCalculateSellPrice(cache, current_supply, tokens_to_sell, params) ==
    IF tokens_to_sell = 0 THEN Priced(Ok(0), cache)
    ELSE IF tokens_to_sell > current_supply
         THEN Priced(Err("Cannot sell more tokens than current supply"), cache)
    ELSE
    LET new_supply == current_supply - tokens_to_sell
    IN  With(calculate_price_at_supply(cache, new_supply, params), LAMBDA start :
        IF ~start.res.ok THEN start
        ELSE IF tokens_to_sell <= 1000
             THEN Priced(DiscountedPayout(start.res.v, tokens_to_sell), start.cache)
        ELSE
        With(calculate_price_at_supply(start.cache, current_supply, params), LAMBDA end :
        IF ~end.res.ok THEN end
        ELSE LET sum == checked_add(start.res.v, end.res.v)
             IN  IF ~sum.ok THEN Priced(sum, end.cache)
                 ELSE Priced(DiscountedPayout(sum.v \div 2, tokens_to_sell), end.cache)))

(* The binary search of calculate_tokens_for_base_amount *)
RECURSIVE TokenSearch(_, _, _, _, _, _, _, _)
TokenSearch(cache, low, high, best_tokens, iterations, current_supply, base_amount, params) ==
    IF ~(low <= high /\ iterations < 20) THEN Priced(Ok(best_tokens), cache)
    ELSE
    LET sum == Add(low, high)
    IN  IF ~sum.ok THEN Priced(Panic, cache)
        ELSE
        LET mid == sum.v \div 2
        IN  With(OptCalculateBuyPrice(cache, current_supply, mid, params), LAMBDA cost :
            IF ~cost.res.ok THEN cost
            ELSE IF cost.res.v <= base_amount
                 THEN LET next == Add(mid, 1)
                      IN  IF ~next.ok THEN Priced(Panic, cost.cache)
                          ELSE TokenSearch(cost.cache, next.v, high, mid, iterations + 1,
                                           current_supply, base_amount, params)
            ELSE TokenSearch(cost.cache, low, saturating_sub(mid, 1), best_tokens,
                             iterations + 1, current_supply, base_amount, params))

calculate_tokens_for_base_amount(cache, current_supply, base_amount, params) ==
    LET linear_limit == Mul(1000, params.base_price)
    IN  IF ~linear_limit.ok THEN Priced(Panic, cache)
        ELSE IF base_amount <= linear_limit.v
        THEN With(calculate_price_at_supply(cache, current_supply, params), LAMBDA price :
             IF ~price.res.ok THEN price
             ELSE LET scaled == checked_mul(base_amount, PRECISION)
                  IN  IF ~scaled.ok THEN Priced(scaled, price.cache)
                      ELSE IF price.res.v = 0 THEN Priced(Panic, price.cache)
                      ELSE Priced(Ok(scaled.v \div price.res.v), price.cache))
        ELSE With(TokenSearch(cache, 0,
                              saturating_sub(params.max_supply, current_supply),
                              0, 0, current_supply, base_amount, params), LAMBDA found :
             IF ~found.res.ok THEN found
             ELSE IF found.res.v = 0
                  THEN Priced(Err("Insufficient base amount to buy any tokens"),
                              found.cache)
             ELSE found)

---------------------------------------------------------------------------
(* BondingCurveToken handlers (lib.rs) *)

(* observe_initialization that accepts a call on an initialized storage *)
observe_initialization_again(st) ==
    Out([st EXCEPT !.initialized = TRUE], Ok(0), << >>)

(* AlkaneResponder::observe_initialization: the first call marks the       *)
(* storage as initialized, every later call fails                          *)
observe_initialization(st) ==
    IF st.initialized THEN Out(st, Err("already initialized"), << >>)
    ELSE Out([st EXCEPT !.initialized = TRUE], Ok(0), << >>)

(* Curve parameters that take the threshold for the price and the price   *)
(* for the threshold                                                       *)
NewParamsSwapped(a) ==
    [base_price |-> a.graduation_threshold, growth_rate |-> a.growth_rate,
     graduation_threshold |-> a.base_price,
     base_token |-> BaseTokenFromU128(a.base_token_type)[1],
     max_supply |-> a.max_supply]

NewParams(a) ==
    [base_price |-> a.base_price, growth_rate |-> a.growth_rate,
     graduation_threshold |-> a.graduation_threshold,
     base_token |-> BaseTokenFromU128(a.base_token_type)[1],
     max_supply |-> a.max_supply]

TokenInitialize(st, a) ==
    LET seen == observe_initialization(st)
    IN  IF ~seen.res.ok THEN seen
        ELSE
        LET st1 == [seen.st EXCEPT !.factory = <<a.caller>>]
        IN  IF a.caller[1] = 0 \/ a.caller[2] = 0
            THEN Out(st1, Err("Only factory can initialize"), << >>)
            ELSE IF a.base_price = 0 THEN Out(st1, Err("base_price must be > 0"), << >>)
            ELSE IF a.max_supply = 0 THEN Out(st1, Err("max_supply must be > 0"), << >>)
            ELSE IF a.growth_rate > 10000
                 THEN Out(st1, Err("growth_rate too high (bps)"), << >>)
            ELSE IF a.lp_distribution_strategy > 3
                 THEN Out(st1, Err("invalid lp_distribution_strategy"), << >>)
            ELSE
            LET st2 == [st1 EXCEPT !.name_symbol = TRUE]
            IN  IF BaseTokenFromU128(a.base_token_type) = << >>
                THEN Out(st2, Err("Invalid base token type"), << >>)
                ELSE Out([st2 EXCEPT !.curve_params = <<NewParams(a)>>,
                                     !.totalsupply = 0,
                                     !.base_reserves = 0,
                                     !.graduated = 0,
                                     !.amm_pool = 0],
                         Ok(0), << >>)

(* buy_tokens without the check of the graduated flag *)
TokenBuyTokensNoGuard(st, min_tokens_out) ==
    IF st.curve_params = << >> THEN Out(st, Err("invalid curve params"), << >>)
    ELSE
    LET params == st.curve_params[1]
        tokens_to_mint == min_tokens_out
        current_supply == st.totalsupply
        new_supply == checked_add(current_supply, tokens_to_mint)
    IN  IF ~new_supply.ok \/ new_supply.v > params.max_supply
        THEN Out(st, Err("cap"), << >>)
        ELSE
        LET st1 == [st EXCEPT !.totalsupply = new_supply.v]
            cost == Mul(tokens_to_mint, params.base_price)
        IN  IF ~cost.ok THEN Out(st1, Panic, << >>)
            ELSE LET new_reserves == checked_add(st1.base_reserves, cost.v)
                 IN  IF ~new_reserves.ok THEN Out(st1, Err("Reserves overflow"), << >>)
                     ELSE Out([st1 EXCEPT !.base_reserves = new_reserves.v],
                              Ok(0), << >>)

TokenBuyTokens(st, min_tokens_out) ==
    IF st.graduated # 0 THEN Out(st, Err("Bonding curve has graduated to AMM"), << >>)
    ELSE IF st.curve_params = << >> THEN Out(st, Err("invalid curve params"), << >>)
    ELSE
    LET params == st.curve_params[1]
        tokens_to_mint == min_tokens_out
        current_supply == st.totalsupply
        new_supply == checked_add(current_supply, tokens_to_mint)
    IN  IF tokens_to_mint < min_tokens_out THEN Out(st, Err("Slippage exceeded"), << >>)
        ELSE IF ~new_supply.ok \/ new_supply.v > params.max_supply
             THEN Out(st, Err("cap"), << >>)
        ELSE
        LET st1 == [st EXCEPT !.totalsupply = new_supply.v]
            cost == Mul(tokens_to_mint, params.base_price)
        IN  IF ~cost.ok THEN Out(st1, Panic, << >>)
            ELSE LET new_reserves == checked_add(st1.base_reserves, cost.v)
                 IN  IF ~new_reserves.ok THEN Out(st1, Err("Reserves overflow"), << >>)
                     ELSE Out([st1 EXCEPT !.base_reserves = new_reserves.v],
                              Ok(0), << >>)

(* A sell_tokens that does not compare the payout with the reserves *)
TokenSellTokensNoReserveCheck(st, token_amount, min_base_out) ==
    IF st.graduated # 0 THEN Out(st, Err("Bonding curve has graduated to AMM"), << >>)
    ELSE IF st.curve_params = << >> THEN Out(st, Err("invalid curve params"), << >>)
    ELSE
    LET params == st.curve_params[1]
        base_payout == Mul(token_amount, params.base_price)
    IN  IF ~base_payout.ok THEN Out(st, Panic, << >>)
        ELSE IF base_payout.v < min_base_out THEN Out(st, Err("Slippage exceeded"), << >>)
        ELSE
        LET new_supply == checked_sub(st.totalsupply, token_amount)
        IN  IF ~new_supply.ok
            THEN Out(st, Err("Cannot burn more tokens than exist"), << >>)
            ELSE
            LET st1 == [st EXCEPT !.totalsupply = new_supply.v]
                new_reserves == checked_sub(st.base_reserves, base_payout.v)
            IN  IF ~new_reserves.ok THEN Out(st1, Err("Reserves underflow"), << >>)
                ELSE Out([st1 EXCEPT !.base_reserves = new_reserves.v],
                         Ok(base_payout.v), << >>)

(* A sell_tokens without the slippage protection *)
TokenSellTokensAnyPayout(st, token_amount, min_base_out) ==
    IF st.graduated # 0 THEN Out(st, Err("Bonding curve has graduated to AMM"), << >>)
    ELSE IF st.curve_params = << >> THEN Out(st, Err("invalid curve params"), << >>)
    ELSE
    LET params == st.curve_params[1]
        base_payout == Mul(token_amount, params.base_price)
    IN  IF ~base_payout.ok THEN Out(st, Panic, << >>)
        ELSE IF base_payout.v > st.base_reserves
             THEN Out(st, Err("Insufficient reserves for sell"), << >>)
        ELSE
        LET new_supply == checked_sub(st.totalsupply, token_amount)
        IN  IF ~new_supply.ok
            THEN Out(st, Err("Cannot burn more tokens than exist"), << >>)
            ELSE
            LET st1 == [st EXCEPT !.totalsupply = new_supply.v]
                new_reserves == checked_sub(st.base_reserves, base_payout.v)
            IN  IF ~new_reserves.ok THEN Out(st1, Err("Reserves underflow"), << >>)
                ELSE Out([st1 EXCEPT !.base_reserves = new_reserves.v],
                         Ok(base_payout.v), << >>)

(* A sell_tokens that lowers the supply with the unchecked subtraction *)
TokenSellTokensUncheckedBurn(st, token_amount, min_base_out) ==
    IF st.graduated # 0 THEN Out(st, Err("Bonding curve has graduated to AMM"), << >>)
    ELSE IF st.curve_params = << >> THEN Out(st, Err("invalid curve params"), << >>)
    ELSE
    LET params == st.curve_params[1]
        base_payout == Mul(token_amount, params.base_price)
    IN  IF ~base_payout.ok THEN Out(st, Panic, << >>)
        ELSE IF base_payout.v < min_base_out THEN Out(st, Err("Slippage exceeded"), << >>)
        ELSE IF base_payout.v > st.base_reserves
             THEN Out(st, Err("Insufficient reserves for sell"), << >>)
        ELSE
        LET new_supply == Sub(st.totalsupply, token_amount)
        IN  IF ~new_supply.ok THEN Out(st, Panic, << >>)
            ELSE
            LET st1 == [st EXCEPT !.totalsupply = new_supply.v]
                new_reserves == checked_sub(st.base_reserves, base_payout.v)
            IN  IF ~new_reserves.ok THEN Out(st1, Err("Reserves underflow"), << >>)
                ELSE Out([st1 EXCEPT !.base_reserves = new_reserves.v],
                         Ok(base_payout.v), << >>)

TokenSellTokens(st, token_amount, min_base_out) ==
    IF st.graduated # 0 THEN Out(st, Err("Bonding curve has graduated to AMM"), << >>)
    ELSE IF st.curve_params = << >> THEN Out(st, Err("invalid curve params"), << >>)
    ELSE
    LET params == st.curve_params[1]
        base_payout == Mul(token_amount, params.base_price)
    IN  IF ~base_payout.ok THEN Out(st, Panic, << >>)
        ELSE IF base_payout.v < min_base_out THEN Out(st, Err("Slippage exceeded"), << >>)
        ELSE IF base_payout.v > st.base_reserves
             THEN Out(st, Err("Insufficient reserves for sell"), << >>)
        ELSE
        LET new_supply == checked_sub(st.totalsupply, token_amount)
        IN  IF ~new_supply.ok
            THEN Out(st, Err("Cannot burn more tokens than exist"), << >>)
            ELSE
            LET st1 == [st EXCEPT !.totalsupply = new_supply.v]
                new_reserves == checked_sub(st.base_reserves, base_payout.v)
            IN  IF ~new_reserves.ok THEN Out(st1, Err("Reserves underflow"), << >>)
                ELSE Out([st1 EXCEPT !.base_reserves = new_reserves.v],
                         Ok(base_payout.v), << >>)

(* BondingCurveToken::get_buy_quote *)
TokenGetBuyQuote(st, token_amount) ==
    IF st.curve_params = << >> THEN Out(st, Err("invalid curve params"), << >>)
    ELSE LET params == st.curve_params[1]
             cost == Mul(token_amount, params.base_price)
         IN  IF ~cost.ok THEN Out(st, Panic, << >>) ELSE Out(st, Ok(cost.v), << >>)

(* BondingCurveToken::get_sell_quote *)
TokenGetSellQuote(st, token_amount) ==
    IF st.curve_params = << >> THEN Out(st, Err("invalid curve params"), << >>)
    ELSE LET params == st.curve_params[1]
             payout == Mul(token_amount, params.base_price)
         IN  IF ~payout.ok THEN Out(st, Panic, << >>) ELSE Out(st, Ok(payout.v), << >>)

(* BondingCurveToken::graduate *)
TokenGraduate(st, amm) ==
    IF st.graduated # 0 THEN Out(st, Err("Already graduated to AMM"), << >>)
    ELSE IF st.curve_params = << >> THEN Out(st, Err("invalid curve params"), << >>)
    ELSE
    LET params == st.curve_params[1]
        current_supply == st.totalsupply
        current_market_cap == Mul(current_supply, params.base_price)
    IN  IF ~current_market_cap.ok THEN Out(st, Panic, << >>)
        ELSE IF current_market_cap.v < params.graduation_threshold
             THEN Out(st, Err("Market cap below graduation threshold"), << >>)
        ELSE
        With(graduate_to_amm(st, current_supply, amm), LAMBDA pool_response :
        IF ~pool_response.res.ok THEN pool_response
        ELSE
        With(to_le_bytes(pool_response.res.v), LAMBDA data :
        IF Len(data) # WordBytes
        THEN Out(pool_response.st, Err("Invalid pool address response"),
                 pool_response.trace)
        ELSE
        With(from_le_bytes(data), LAMBDA pool_address :
        LET st1 == [pool_response.st EXCEPT !.graduated = 1,
                                            !.amm_pool = pool_address]
            trace == pool_response.trace \o <<"set_graduated", "set_amm_pool">>
        IN  IF st1.factory = << >>
            THEN Out(st1, Err("invalid factory id"), trace)
            ELSE Out(st1, Ok(pool_address), trace))))

---------------------------------------------------------------------------
(* OptimizedBondingCurve handlers (bonding_curve_optimized.rs) *)

OptGetCurveParams(st) == get_curve_params(st)

OptIsGraduated(st) == st.graduated = 1

OptInitialize(st, a) ==
    LET seen == observe_initialization(st)
    IN  IF ~seen.res.ok THEN Out(st, Err("Contract already initialized"), << >>)
        ELSE IF BaseTokenFromU128(a.base_token_type) = << >>
             THEN Out(seen.st, Err("Invalid base token type"), << >>)
        ELSE IF a.lp_distribution_strategy > 3
             THEN Out(seen.st, Err("Invalid LP distribution strategy (0-3)"), << >>)
        ELSE
        LET st1 == [seen.st EXCEPT !.curve_params = <<NewParams(a)>>,
                                   !.name_symbol = TRUE,
                                   !.base_reserves = 0]
        IN  IF ~a.tx_ok THEN Out(st1, Err("transaction decode failed"), << >>)
            ELSE Out([st1 EXCEPT !.data_set = TRUE], Ok(0), << >>)

(* base_input: << >> when no transfer of the base token came in, else <<amount>> *)
OptBuyTokens(st, min_tokens_out, base_input) ==
    IF OptIsGraduated(st) THEN Out(st, Err("Bonding curve has graduated to AMM"), << >>)
    ELSE IF base_input = << >> THEN Out(st, Err("No base token input found"), << >>)
    ELSE
    LET params == OptGetCurveParams(st)
        base_amount == base_input[1]
    IN  With(calculate_tokens_for_base_amount(st.price_cache, st.totalsupply,
                                              base_amount, params), LAMBDA tokens :
        LET st1 == [st EXCEPT !.price_cache = tokens.cache]
        IN  IF ~tokens.res.ok THEN Out(st1, tokens.res, << >>)
            ELSE IF tokens.res.v < min_tokens_out
                 THEN Out(st1, Err("Slippage exceeded"), << >>)
            ELSE
            LET minted == checked_add(st1.totalsupply, tokens.res.v)
            IN  IF ~minted.ok THEN Out(st1, Err("total supply overflow"), << >>)
                ELSE
                LET st2 == [st1 EXCEPT !.totalsupply = minted.v]
                    new_reserves == Add(st2.base_reserves, base_amount)
                IN  IF ~new_reserves.ok THEN Out(st2, Panic, << >>)
                    ELSE Out([st2 EXCEPT !.base_reserves = new_reserves.v],
                             Ok(tokens.res.v), << >>))

OptSellTokens(st, token_amount, min_base_out) ==
    IF OptIsGraduated(st) THEN Out(st, Err("Bonding curve has graduated to AMM"), << >>)
    ELSE
    LET params == OptGetCurveParams(st)
    IN  With(OptCalculateSellPrice(st.price_cache, st.totalsupply, token_amount, params),
             LAMBDA payout :
        LET st1 == [st EXCEPT !.price_cache = payout.cache]
        IN  IF ~payout.res.ok THEN Out(st1, payout.res, << >>)
            ELSE IF payout.res.v < min_base_out
                 THEN Out(st1, Err("Slippage exceeded"), << >>)
            ELSE IF payout.res.v > st1.base_reserves
                 THEN Out(st1, Err("Insufficient reserves for sell"), << >>)
            ELSE
            LET new_supply == checked_sub(st1.totalsupply, token_amount)
            IN  IF ~new_supply.ok
                THEN Out(st1, Err("Cannot burn more tokens than exist"), << >>)
                ELSE Out([st1 EXCEPT !.totalsupply = new_supply.v,
                                     !.base_reserves = st1.base_reserves - payout.res.v],
                         Ok(payout.res.v), << >>))

(* OptimizedBondingCurve::get_buy_quote: the price it computes is cached *)
OptGetBuyQuote(st, token_amount) ==
    With(OptCalculateBuyPrice(st.price_cache, st.totalsupply, token_amount,
                              OptGetCurveParams(st)), LAMBDA cost :
    Out([st EXCEPT !.price_cache = cost.cache], cost.res, << >>))

(* OptimizedBondingCurve::get_sell_quote *)
OptGetSellQuote(st, token_amount) ==
    With(OptCalculateSellPrice(st.price_cache, st.totalsupply, token_amount,
                               OptGetCurveParams(st)), LAMBDA payout :
    Out([st EXCEPT !.price_cache = payout.cache], payout.res, << >>))

(* OptimizedBondingCurve::graduate *)
OptGraduate(st) ==
    Out([st EXCEPT !.graduated = 1], Ok(1), <<"set_graduated">>)

---------------------------------------------------------------------------
(* Inputs of the calls *)

Half == 2^(WordBits - 1)

BuyAmounts == {0, 1, 2, EmergencyMinSupply, Half}
SellInputs == {<<0, 0>>, <<1, 0>>, <<1, 4>>, <<Half, 0>>}
BaseInputs == {<< >>, <<1>>, <<Half>>}
MinTokensOuts == {0, Half}

QuoteAmounts == {0, 1, Half}

(* BondingCurveFactory *)

MAX_FACTORY_FEE == 500

(* The factory's own id, context.myself *)
FactoryMyself == <<2, 3>>

(* (block << 64 | tx) on a word of WordBits bits *)
CreatorHash(id) == (id[1] * 2^(WordBits \div 2) + id[2]) % Modulus

(* name_sum and symbol_sum are the byte sums of the decoded name and symbol *)
generate_curve_id(creator, name_sum, symbol_sum) ==
    (CreatorHash(creator) + name_sum + symbol_sum) % Modulus

add_fees(st, amount) ==
    LET sum == checked_add(st.accumulated_fees, amount)
    IN  IF ~sum.ok THEN Out(st, sum, << >>)
        ELSE Out([st EXCEPT !.accumulated_fees = sum.v], Ok(0), << >>)

FactoryCreateBondingCurve(st, a) ==
    IF BaseTokenFromU128(a.base_token_type) = << >>
    THEN Out(st, Err("Invalid base token type"), << >>)
    ELSE IF a.lp_distribution_strategy > 3
    THEN Out(st, Err("Invalid LP distribution strategy (0-3)"), << >>)
    ELSE IF a.growth_rate > 10000
    THEN Out(st, Err("Growth rate too high (max 100%)"), << >>)
    ELSE
    LET curve_id == generate_curve_id(FactoryMyself, a.name_sum, a.symbol_sum)
        curve_info == [curve_id |-> curve_id,
                       creator |-> CreatorHash(FactoryMyself),
                       launch_block |-> 0,
                       base_token |-> BaseTokenFromU128(a.base_token_type)[1],
                       is_active |-> TRUE]
        count == Add(st.curve_count, 1)
    IN  IF ~count.ok THEN Out(st, count, << >>)
        ELSE
        \* the curve is stored at index curve_count - 1, the registry's end
        LET st1 == [st EXCEPT !.curve_count = count.v,
                              !.curves_registry = Append(@, curve_info)]
        IN  IF st1.factory_fee = 0 THEN Out(st1, Ok(curve_id), << >>)
            ELSE
            LET product == Mul(a.graduation_threshold, st1.factory_fee)
            IN  IF ~product.ok THEN Out(st1, product, << >>)
                ELSE
                LET added == add_fees(st1, product.v \div 10000)
                IN  IF ~added.res.ok THEN added
                    ELSE Out(added.st, Ok(curve_id), << >>)

(* The caller is in the call's context; the handler never reads it *)
FactorySetFactoryFee(st, a) ==
    IF a.fee_basis_points > MAX_FACTORY_FEE
    THEN Out(st, Err("Fee too high (max 5%)"), << >>)
    ELSE Out([st EXCEPT !.factory_fee = a.fee_basis_points], Ok(0), << >>)

(* The result is the amount transferred to the caller *)
FactoryCollectFees(st, a) ==
    IF st.accumulated_fees > 0
    THEN Out([st EXCEPT !.accumulated_fees = 0], Ok(st.accumulated_fees), << >>)
    ELSE Out(st, Ok(0), << >>)

(* The identity that deployed the factory, and another one *)
FactoryAdmin == <<2, 1>>

FactoryCallers == {FactoryAdmin, <<2, 7>>}

FactoryFees == {100, MAX_FACTORY_FEE, MAX_FACTORY_FEE + 1}

BaseCreateArgs ==
    [name_sum |-> 5, symbol_sum |-> 2, base_price |-> 3, growth_rate |-> 1500,
     graduation_threshold |-> 10000, base_token_type |-> 0, max_supply |-> 5,
     lp_distribution_strategy |-> 0]

CreateArgs ==
    {BaseCreateArgs,
     [BaseCreateArgs EXCEPT !.graduation_threshold = U128_MAX,
                            !.base_token_type = 1],
     [BaseCreateArgs EXCEPT !.base_token_type = 2],
     [BaseCreateArgs EXCEPT !.lp_distribution_strategy = 4],
     [BaseCreateArgs EXCEPT !.growth_rate = 10001]}

(* initialize: one set of arguments that both contracts accept from the    *)
(* factory, some more that they accept, and one per way of being rejected  *)
BaseArgs ==
    [caller |-> <<2, 1>>, base_price |-> 3, growth_rate |-> 1500,
     graduation_threshold |-> 6, base_token_type |-> 0, max_supply |-> 5,
     lp_distribution_strategy |-> 0, tx_ok |-> TRUE]

InitializeArgs ==
    {BaseArgs,
     [BaseArgs EXCEPT !.base_price = 1, !.max_supply = U128_MAX],
     [BaseArgs EXCEPT !.base_price = Half, !.max_supply = U128_MAX],
     [BaseArgs EXCEPT !.growth_rate = 0, !.graduation_threshold = 0,
                      !.base_token_type = 1, !.lp_distribution_strategy = 3],
     [BaseArgs EXCEPT !.base_price = 100, !.growth_rate = 0,
                      !.graduation_threshold = Half, !.max_supply = U128_MAX],
     [BaseArgs EXCEPT !.caller = <<0, 0>>],
     [BaseArgs EXCEPT !.caller = <<2, 0>>],
     [BaseArgs EXCEPT !.base_price = 0],
     [BaseArgs EXCEPT !.max_supply = 0],
     [BaseArgs EXCEPT !.growth_rate = 10001],
     [BaseArgs EXCEPT !.lp_distribution_strategy = 4],
     [BaseArgs EXCEPT !.base_token_type = 2],
     [BaseArgs EXCEPT !.tx_ok = FALSE]}

(* Inputs of the pricing, graduation and distribution functions when they  *)
(* are called on their own, as the unit tests call them.                   *)
CalcParams ==
    {[base_price |-> 3, growth_rate |-> 1500, graduation_threshold |-> 6,
      base_token |-> BUSD, max_supply |-> 5],
     [base_price |-> 100, growth_rate |-> 0, graduation_threshold |-> 5,
      base_token |-> BUSD, max_supply |-> 5000],
     [base_price |-> 100, growth_rate |-> 100, graduation_threshold |-> 1000,
      base_token |-> FrBtc, max_supply |-> 5000],
     [base_price |-> 1, growth_rate |-> 10000, graduation_threshold |-> 6,
      base_token |-> BUSD, max_supply |-> U128_MAX],
     [base_price |-> Half, growth_rate |-> 0, graduation_threshold |-> 6,
      base_token |-> BUSD, max_supply |-> U128_MAX],
     [base_price |-> 0, growth_rate |-> 20000, graduation_threshold |-> 0,
      base_token |-> FrBtc, max_supply |-> 0],
     DefaultParams}

(* The f64 power of logarithmic_price_approximation is modelled for growth *)
(* rate 0 and for growth rates of 736 bps or more                          *)
OptCalcParams == {p \in CalcParams : p.growth_rate = 0 \/ p.growth_rate >= 736}

CalcSupplies == {0, 1, 2, 3, 4, 5, 8, 12, 40, 250, 500, 999, 1000, 1100, 1200, 5000,
                 Half, U128_MAX}

CalcQuantities == {0, 1, 2, 3, 5, 8, 101, 150, Half, U128_MAX}

CalcReserves == {0, 1, 2, 3, 500, Half}

LpStrategies == 0..4

LpTotals == {0, 1, 2, 3, 7, 99, 100, 101, 1000000, Half, U128_MAX}

(* Price caches: empty, and with the price 77 stored for the bucket of 1000 *)
CalcCaches == {<< >>, set_cached_price(<< >>, 1000, 77)}

(* Block heights, supplies and reserves around the emergency limits *)
EmergencyBlocks == {0, 1000, 5000, 5319, 5320, 5321, 100000}
EmergencySupplies == {0, 999999, 1000000, 2000000}
EmergencyReserves == {0, 99999999, 100000000, 200000000}

(* The summation loops of calculate_precise_buy_cost and                   *)
(* calculate_precise_sell_return run once per token; the inputs are those  *)
(* for which they run at most MaxLoop times.                               *)
MaxLoop == 8

ShortBuy(current_supply, tokens_to_buy, params) ==
    \/ tokens_to_buy <= MaxLoop
    \/ current_supply >= 1000
    \/ tokens_to_buy > params.max_supply - current_supply

ShortSell(current_supply, tokens_to_sell) ==
    \/ tokens_to_sell <= MaxLoop
    \/ tokens_to_sell > current_supply
    \/ current_supply - tokens_to_sell >= 1000

NoCall ==
    [op |-> "none", args |-> << >>, res |-> Ok(0), trace |-> << >>, pre |-> EmptyStore]

---------------------------------------------------------------------------
(* The state machine *)

Init ==
    /\ store = EmptyStore
    /\ contract \in {"token", "optimized", "calculator", "factory"}
    /\ build \in {"debug", "release"}
    /\ calls = 0
    /\ last = NoCall

(* One call: the handler's outcome becomes the storage, and the call is    *)
(* recorded                                                                *)
Call(op, args, out) ==
    /\ calls < MaxCalls
    /\ store' = out.st
    /\ calls' = calls + 1
    /\ last' = [op |-> op, args |-> args, res |-> out.res, trace |-> out.trace,
                pre |-> store]
    /\ UNCHANGED <<contract, build>>

Initialize ==
    /\ contract = "token"
    /\ \E a \in InitializeArgs :
          Call("initialize", a, TokenInitialize(store, a))

BuyTokens ==
    /\ contract = "token"
    /\ \E min_tokens_out \in BuyAmounts :
          Call("buy_tokens", [min_tokens_out |-> min_tokens_out],
               TokenBuyTokens(store, min_tokens_out))

SellTokens ==
    /\ contract = "token"
    /\ \E sell \in SellInputs :
          Call("sell_tokens", [token_amount |-> sell[1], min_base_out |-> sell[2]],
               TokenSellTokens(store, sell[1], sell[2]))

Graduate ==
    /\ contract = "token"
    /\ \E amm \in AmmAnswers :
          Call("graduate", [amm |-> amm], TokenGraduate(store, amm))

GetBuyQuote ==
    /\ contract = "token"
    /\ \E token_amount \in QuoteAmounts :
          Call("get_buy_quote", [token_amount |-> token_amount],
               TokenGetBuyQuote(store, token_amount))

GetSellQuote ==
    /\ contract = "token"
    /\ \E token_amount \in QuoteAmounts :
          Call("get_sell_quote", [token_amount |-> token_amount],
               TokenGetSellQuote(store, token_amount))

OptimizedInitialize ==
    /\ contract = "optimized"
    /\ \E a \in InitializeArgs :
          Call("initialize", a, OptInitialize(store, a))

OptimizedBuyTokens ==
    /\ contract = "optimized"
    /\ \E min_tokens_out \in MinTokensOuts, base_input \in BaseInputs :
          Call("buy_tokens",
               [min_tokens_out |-> min_tokens_out, base_input |-> base_input],
               OptBuyTokens(store, min_tokens_out, base_input))

OptimizedSellTokens ==
    /\ contract = "optimized"
    /\ \E sell \in SellInputs :
          Call("sell_tokens", [token_amount |-> sell[1], min_base_out |-> sell[2]],
               OptSellTokens(store, sell[1], sell[2]))

OptimizedGraduate ==
    /\ contract = "optimized"
    /\ Call("graduate", [amm |-> AmmOk(1, 7)], OptGraduate(store))

OptimizedGetBuyQuote ==
    /\ contract = "optimized"
    /\ \E token_amount \in QuoteAmounts :
          Call("get_buy_quote", [token_amount |-> token_amount],
               OptGetBuyQuote(store, token_amount))

OptimizedGetSellQuote ==
    /\ contract = "optimized"
    /\ \E token_amount \in QuoteAmounts :
          Call("get_sell_quote", [token_amount |-> token_amount],
               OptGetSellQuote(store, token_amount))

(* One call of a function of the calculator, on its own *)
CalcReady == contract = "calculator" /\ calls = 0

CalcCall(op, args, res) ==
    /\ calls' = 1
    /\ last' = [op |-> op, args |-> args, res |-> res, trace |-> << >>, pre |-> store]
    /\ UNCHANGED <<store, contract, build>>

PriceAtSupply ==
    /\ CalcReady
    /\ \E params \in CalcParams, supply \in CalcSupplies :
        CalcCall("price_at_supply", [supply |-> supply, params |-> params],
                 price_at_supply(supply, params))

(* fixed_point_power on its own: growth multipliers over BASIS_POINTS and   *)
(* ratios over 100                                                         *)
PowerBases == {1, 150, 10000, 10001, 10033, 10150, 11500, 20000}

PowerExponents == 0..20

PowerDenominators == {100, BASIS_POINTS}

FixedPointPower ==
    /\ CalcReady
    /\ \E base \in PowerBases, exponent \in PowerExponents,
          denominator \in PowerDenominators :
        CalcCall("fixed_point_power",
                 [base |-> base, exponent |-> exponent, denominator |-> denominator],
                 fixed_point_power(base, exponent, denominator))

CalculateBuyPrice ==
    /\ CalcReady
    /\ \E params \in CalcParams, current_supply \in CalcSupplies,
       tokens_to_buy \in CalcQuantities :
        /\ ShortBuy(current_supply, tokens_to_buy, params)
        /\ CalcCall("calculate_buy_price",
                    [current_supply |-> current_supply, tokens |-> tokens_to_buy,
                     params |-> params, cache |-> << >>, optimized |-> FALSE],
                    calculate_buy_price(current_supply, tokens_to_buy, params))

CalculateSellPrice ==
    /\ CalcReady
    /\ \E params \in CalcParams, current_supply \in CalcSupplies,
       tokens_to_sell \in CalcQuantities :
        /\ ShortSell(current_supply, tokens_to_sell)
        /\ CalcCall("calculate_sell_price",
                    [current_supply |-> current_supply, tokens |-> tokens_to_sell,
                     params |-> params, cache |-> << >>, optimized |-> FALSE],
                    calculate_sell_price(current_supply, tokens_to_sell, params))

OptimizedCalculateBuyPrice ==
    /\ CalcReady
    /\ \E params \in OptCalcParams, current_supply \in CalcSupplies,
       tokens_to_buy \in CalcQuantities, cache \in CalcCaches :
        CalcCall("calculate_buy_price",
                 [current_supply |-> current_supply, tokens |-> tokens_to_buy,
                  params |-> params, cache |-> cache, optimized |-> TRUE],
                 OptCalculateBuyPrice(cache, current_supply, tokens_to_buy, params).res)

(* calculate_price_at_supply for one supply, then for another with the     *)
(* cache that the first query left                                         *)
CalculatePriceAtSupply ==
    /\ CalcReady
    /\ \E params \in OptCalcParams, earlier \in CalcSupplies, supply \in CalcSupplies :
        CalcCall("calculate_price_at_supply",
                 [earlier |-> earlier, supply |-> supply, params |-> params],
                 calculate_price_at_supply(
                     calculate_price_at_supply(<< >>, earlier, params).cache,
                     supply, params).res)

OptimizedCalculateSellPrice ==
    /\ CalcReady
    /\ \E params \in OptCalcParams, current_supply \in CalcSupplies,
       tokens_to_sell \in CalcQuantities, cache \in CalcCaches :
        CalcCall("calculate_sell_price",
                 [current_supply |-> current_supply, tokens |-> tokens_to_sell,
                  params |-> params, cache |-> cache, optimized |-> TRUE],
                 OptCalculateSellPrice(cache, current_supply, tokens_to_sell, params).res)

CheckGraduationCriteria ==
    /\ CalcReady
    /\ \E params \in CalcParams, current_supply \in CalcSupplies,
       base_reserves \in CalcReserves :
        CalcCall("check_graduation_criteria",
                 [current_supply |-> current_supply, base_reserves |-> base_reserves,
                  params |-> params],
                 check_graduation_criteria(current_supply, base_reserves, params))

(* The result carries the buckets that were computed *)
DistributeLpTokens ==
    /\ CalcReady
    /\ \E strategy \in LpStrategies, lp_tokens \in LpTotals :
        LET out == DistributeWith(strategy, lp_tokens)
        IN  CalcCall("distribute_lp_tokens",
                     [strategy |-> strategy, lp_tokens |-> lp_tokens],
                     [ok |-> out.res.ok, v |-> out.buckets, err |-> out.res.err])

(* test_buy_price_calculation: 1000 tokens bought at supply 0 with the    *)
(* default parameters                                                      *)
BuyPriceScenario ==
    /\ CalcReady
    /\ CalcCall("calculate_buy_price",
                [current_supply |-> 0, tokens |-> 1000, params |-> DefaultParams,
                 cache |-> << >>, optimized |-> FALSE],
                calculate_buy_price(0, 1000, DefaultParams))

(* The cost of buying tokens at current_supply and the payout of selling   *)
(* them back at once, by one implementation with an empty price cache      *)
BuyThenSell ==
    /\ CalcReady
    /\ \E optimized \in BOOLEAN, current_supply \in CalcSupplies,
          tokens \in CalcQuantities :
        \E params \in IF optimized THEN OptCalcParams ELSE CalcParams :
            /\ tokens <= params.max_supply
            /\ current_supply <= params.max_supply - tokens
            /\ ShortBuy(current_supply, tokens, params)
            /\ CalcCall("buy_then_sell",
                   [current_supply |-> current_supply, tokens |-> tokens,
                    params |-> params, optimized |-> optimized],
                   Ok([buy |-> IF optimized
                               THEN OptCalculateBuyPrice(<< >>, current_supply,
                                                         tokens, params).res
                               ELSE calculate_buy_price(current_supply, tokens, params),
                       sell |-> IF optimized
                                THEN OptCalculateSellPrice(<< >>, current_supply + tokens,
                                                           tokens, params).res
                                ELSE calculate_sell_price(current_supply + tokens,
                                                          tokens, params)]))

CalculatePoolRatios ==
    /\ CalcReady
    /\ \E params \in CalcParams, token_supply \in CalcSupplies,
          base_reserves \in CalcReserves :
        CalcCall("calculate_pool_ratios",
                 [token_supply |-> token_supply, base_reserves |-> base_reserves,
                  params |-> params],
                 calculate_pool_ratios(token_supply, base_reserves, params))

CheckEmergencyGraduation ==
    /\ CalcReady
    /\ \E current_block \in EmergencyBlocks, launch_block \in EmergencyBlocks,
          token_supply \in EmergencySupplies, base_reserves \in EmergencyReserves :
          CalcCall("check_emergency_graduation",
                   [current_block |-> current_block, launch_block |-> launch_block,
                    token_supply |-> token_supply, base_reserves |-> base_reserves],
                   Ok(IF check_emergency_graduation(current_block, launch_block,
                                                    token_supply, base_reserves)
                      THEN 1 ELSE 0))

CreateBondingCurve ==
    /\ contract = "factory"
    /\ \E a \in CreateArgs :
          Call("create_bonding_curve", a, FactoryCreateBondingCurve(store, a))

SetFactoryFeeHandler ==
    /\ contract = "factory"
    /\ \E caller \in FactoryCallers, fee \in FactoryFees :
          LET a == [caller |-> caller, fee_basis_points |-> fee]
          IN  Call("set_factory_fee_handler", a, FactorySetFactoryFee(store, a))

CollectFees ==
    /\ contract = "factory"
    /\ \E caller \in FactoryCallers :
          LET a == [caller |-> caller]
          IN  Call("collect_fees", a, FactoryCollectFees(store, a))

Next ==
    \/ Initialize
    \/ BuyTokens
    \/ SellTokens
    \/ Graduate
    \/ GetBuyQuote
    \/ GetSellQuote
    \/ OptimizedInitialize
    \/ OptimizedBuyTokens
    \/ OptimizedSellTokens
    \/ OptimizedGraduate
    \/ OptimizedGetBuyQuote
    \/ OptimizedGetSellQuote
    \/ PriceAtSupply
    \/ CalculateBuyPrice
    \/ CalculateSellPrice
    \/ OptimizedCalculateBuyPrice
    \/ OptimizedCalculateSellPrice
    \/ CalculatePriceAtSupply
    \/ FixedPointPower
    \/ CalculatePoolRatios
    \/ BuyThenSell
    \/ CheckGraduationCriteria
    \/ DistributeLpTokens
    \/ CheckEmergencyGraduation
    \/ BuyPriceScenario
    \/ CreateBondingCurve
    \/ SetFactoryFeeHandler
    \/ CollectFees

Spec == Init /\ [][Next]_vars

TypeOK ==
    /\ store.totalsupply \in 0..U128_MAX
    /\ store.base_reserves \in 0..U128_MAX
    /\ store.graduated \in {0, 1}
    /\ calls \in 0..MaxCalls

---------------------------------------------------------------------------
(* Properties *)

AlreadyGraduatedError == "Bonding curve has graduated to AMM"

(* The curve state of two storages is the same *)
SameCurveState(a, b) ==
    /\ a.graduated = b.graduated
    /\ a.amm_pool = b.amm_pool
    /\ a.amm_pool_address = b.amm_pool_address
    /\ a.lp_tokens = b.lp_tokens
    /\ a.totalsupply = b.totalsupply
    /\ a.base_reserves = b.base_reserves

(* The AMM answered every step of the attempt successfully *)
AmmCooperates(amm) == amm \in {AmmOk(p, 7) : p \in PoolIds} \cup {AmmOk(p, 1) : p \in PoolIds}

(* meets_graduation on the storage st *)
MeetsGraduation(st) ==
    check_graduation_criteria(st.totalsupply, st.base_reserves, get_curve_params(st)) = Ok(1)

(* The attempt got as far as calling add_liquidity *)
ReachedAddLiquidity(trace) ==
    \E i \in 1..Len(trace) : trace[i] = "transfer"

(* C1: a graduation attempt on a non-graduated curve that fails at any     *)
(* step leaves the graduated flag, both pool references, the LP balance,   *)
(* the supply and the reserves as they were before the call.               *)
C1_GraduationAllOrNothing ==
    (last.op = "graduate" /\ last.pre.graduated = 0 /\ ~last.res.ok)
        => SameCurveState(store, last.pre)

(* C1 witness: an attempt that failed at add_liquidity, after the pool was *)
(* created, verified and the transfer step was done.                       *)
C1_Witness ==
    /\ contract = "token"
    /\ last.op = "graduate"
    /\ last.pre.graduated = 0
    /\ ~last.res.ok
    /\ last.trace = <<"create_pool", "verify_pool", "transfer">>
    /\ ~last.args.amm.add_ok
    /\ last.pre.base_reserves > 0

(* C2: on BondingCurveToken, once the graduated flag is set no step        *)
(* changes the supply or the reserves, and every buy_tokens and            *)
(* sell_tokens call fails with "Bonding curve has graduated to AMM".       *)
C2_NoTradingAfterGraduation ==
    [][(contract = "token" /\ store.graduated # 0)
        => /\ store'.totalsupply = store.totalsupply
           /\ store'.base_reserves = store.base_reserves
           /\ (last'.op \in {"buy_tokens", "sell_tokens"}
                 => ~last'.res.ok /\ last'.res.err = AlreadyGraduatedError)]_vars

(* C2 witness: a buy on a graduated curve with supply left under the cap,  *)
(* rejected.                                                               *)
C2_Witness ==
    /\ contract = "token"
    /\ last.op = "buy_tokens"
    /\ last.pre.graduated = 1
    /\ last.args.min_tokens_out > 0
    /\ last.pre.totalsupply + last.args.min_tokens_out <= last.pre.curve_params[1].max_supply
    /\ ~last.res.ok

(* C3 (as claimed): the graduated flag never returns to false, and every   *)
(* graduation attempt made while it is set is rejected and changes         *)
(* nothing, on each graduate entry point.                                  *)
C3_GraduatedOnceAndRejectsAgain ==
    [][/\ (store.graduated # 0 => store'.graduated # 0)
       /\ (store.graduated # 0 /\ last'.op = "graduate"
             => ~last'.res.ok /\ store' = store)]_vars

(* C4 (as claimed): after a successful graduation the flag and the pool    *)
(* references were written after the AMM steps, and the recorded LP        *)
(* balance is the positive amount add_liquidity returned.                  *)
C4_LpBalanceRecorded ==
    (contract = "token" /\ last.op = "graduate" /\ last.res.ok)
        => /\ SubSeq(last.trace, 1, 5) = <<"create_pool", "verify_pool", "transfer",
                                           "add_liquidity", "distribute_lp_tokens">>
           /\ store.lp_tokens = last.args.amm.lp
           /\ store.lp_tokens > 0

(* C5: when add_liquidity returns zero LP tokens the attempt fails and the *)
(* graduated flag, the pool references and the reserves are unchanged.     *)
C5_ZeroLpAborts ==
    (contract = "token" /\ last.op = "graduate" /\ ReachedAddLiquidity(last.trace)
        /\ last.args.amm.add_ok /\ last.args.amm.lp = 0)
        => /\ ~last.res.ok
           /\ store.graduated = last.pre.graduated
           /\ store.amm_pool = last.pre.amm_pool
           /\ store.amm_pool_address = last.pre.amm_pool_address
           /\ store.base_reserves = last.pre.base_reserves

(* C5 witness: add_liquidity was called and returned zero. *)
C5_Witness ==
    /\ contract = "token"
    /\ last.op = "graduate"
    /\ ReachedAddLiquidity(last.trace)
    /\ last.args.amm.add_ok
    /\ last.args.amm.lp = 0
    /\ last.res.err = "Failed to receive LP tokens from pool"
    /\ last.pre.base_reserves > 0

(* C6 (as claimed): a graduation attempt made while the criteria are not   *)
(* met is rejected, reaches no AMM step and no write, and leaves the       *)
(* storage as it was, on each graduate entry point.                        *)
C6_RejectedWhenCriteriaNotMet ==
    (last.op = "graduate" /\ last.pre.graduated = 0 /\ ~MeetsGraduation(last.pre))
        => /\ ~last.res.ok
           /\ last.trace = << >>
           /\ store = last.pre

(* C7 (as claimed): on a non-graduated curve whose criteria are met, an    *)
(* attempt that the AMM answers successfully at every step succeeds, sets  *)
(* the flag and records a non-zero pool reference.                         *)
C7_GraduatesWhenCriteriaMet ==
    (contract = "token" /\ last.op = "graduate" /\ last.pre.graduated = 0
        /\ last.pre.curve_params # << >> /\ MeetsGraduation(last.pre)
        /\ AmmCooperates(last.args.amm))
        => /\ last.res.ok
           /\ store.graduated = 1
           /\ store.amm_pool # 0

(* C8: a pool reference is non-zero only on a graduated curve, and on a    *)
(* graduated BondingCurveToken "/amm_pool" and "/amm_pool_address" both    *)
(* hold the pool id that create_pool returned.                             *)
C8_PoolReference ==
    /\ (store.amm_pool # 0 \/ store.amm_pool_address # 0) => store.graduated = 1
    /\ (contract = "token" /\ store.graduated = 1)
          => store.amm_pool = store.amm_pool_address /\ store.amm_pool \in PoolIds
    /\ (contract = "token" /\ last.op = "graduate" /\ last.res.ok)
          => /\ store.amm_pool = last.args.amm.pool
             /\ store.amm_pool_address = last.args.amm.pool
             /\ last.res.v = last.args.amm.pool

(* C8 witness: a graduation whose pool has the second id. *)
C8_Witness ==
    /\ contract = "token"
    /\ last.op = "graduate"
    /\ last.res.ok
    /\ last.args.amm.pool = 2
    /\ store.amm_pool = 2

(* C9 (as claimed): on a curve with stored parameters, a buy or a sell     *)
(* that starts with the supply within max_supply ends with it within       *)
(* max_supply, on either contract.                                         *)
C9_SupplyWithinCap ==
    [][(store.curve_params # << >>
        /\ store.totalsupply <= store.curve_params[1].max_supply
        /\ last'.op \in {"buy_tokens", "sell_tokens"})
        => store'.totalsupply <= store.curve_params[1].max_supply]_vars

(* reserves = supply * base_price on the storage st *)
ReservesMatchSupply(st) ==
    /\ MulFits(st.totalsupply, st.curve_params[1].base_price)
    /\ st.base_reserves = st.totalsupply * st.curve_params[1].base_price

(* C10 (as claimed): on a non-graduated BondingCurveToken a successful buy *)
(* or sell keeps base_reserves = current_supply * base_price.              *)
C10_ReservesAreNetSettlements ==
    [][(contract = "token" /\ store.curve_params # << >> /\ store.graduated = 0
        /\ ReservesMatchSupply(store)
        /\ last'.op \in {"buy_tokens", "sell_tokens"} /\ last'.res.ok)
        => ReservesMatchSupply(store')]_vars

(* C11 (as claimed): a buy_tokens or sell_tokens call that returns an error *)
(* leaves the stored supply and the stored reserves as they were: no call  *)
(* changes the supply while it fails to record the reserves.               *)
C11_SupplyAndReservesTogether ==
    [][(last'.op \in {"buy_tokens", "sell_tokens"} /\ ~last'.res.ok
        /\ ~IsPanic(last'.res))
        => /\ store'.totalsupply = store.totalsupply
           /\ store'.base_reserves = store.base_reserves]_vars

(* C12: on a storage marked initialized no step changes the stored curve   *)
(* parameters, and every initialize call fails with "already initialized"  *)
(* and changes nothing.                                                    *)
C12_ParamsWrittenOnce ==
    [][store.initialized
        => /\ store'.curve_params = store.curve_params
           /\ (last'.op = "initialize"
                 => /\ ~last'.res.ok
                    /\ last'.res.err \in {"already initialized",
                                          "Contract already initialized"}
                    /\ store' = store)]_vars

(* C12 witness: a second initialize, with another base price, on a curve   *)
(* whose parameters were written by a successful initialize, after a buy.  *)
C12_Witness ==
    /\ last.op = "initialize"
    /\ last.pre.curve_params # << >>
    /\ last.pre.totalsupply > 0
    /\ last.args.base_price # last.pre.curve_params[1].base_price
    /\ ~last.res.ok
    /\ store.curve_params = last.pre.curve_params

(* floor(total * pct / 100) as a number, whatever the width of the word *)
PctOf(total, pct) == (total \div 100) * pct + ((total % 100) * pct) \div 100

(* The percentages of all buckets but the last, by strategy *)
StrategyPcts(strategy) ==
    IF strategy = LP_STRATEGY_COMMUNITY THEN <<60, 20>>
    ELSE IF strategy = LP_STRATEGY_CREATOR THEN <<40, 40>>
    ELSE IF strategy = LP_STRATEGY_DAO THEN <<50, 30>>
    ELSE <<80>>

(* C13: for every strategy and every total T > 0 distribute_lp_tokens      *)
(* computes its buckets, every bucket but the last is floor(T * pct / 100) *)
(* and the last is T minus the others, so that they sum to T.  The code    *)
(* multiplies T by the percentage unchecked: for T above u128::MAX / 80    *)
(* the debug build panics and the release build hands out wrapped amounts. *)
C13_BucketsSumToTotal ==
    (last.op = "distribute_lp_tokens" /\ last.args.lp_tokens > 0)
        => /\ last.res.ok
           /\ LET T == last.args.lp_tokens
                  pcts == StrategyPcts(last.args.strategy)
                  b == last.res.v
              IN  /\ Len(b) = Len(pcts) + 1
                  /\ \A i \in 1..Len(pcts) : b[i].amount = PctOf(T, pcts[i])
                  /\ b[Len(b)].amount
                        = IF Len(pcts) = 1 THEN T - PctOf(T, pcts[1])
                          ELSE T - PctOf(T, pcts[1]) - PctOf(T, pcts[2])

ValidPricing(params) ==
    /\ params.base_price > 0
    /\ params.growth_rate <= 10000
    /\ params.max_supply > 0

(* C15: for valid parameters and supplies s1 < s2 <= max_supply whose      *)
(* prices are both defined, price_at_supply(s1) <= price_at_supply(s2).    *)
(* s2 is the supply of the call, s1 every smaller supply of the inputs and *)
(* the supply just below s2.                                               *)
C15_PriceMonotonic ==
    (/\ last.op = "price_at_supply"
     /\ last.res.ok
     /\ ValidPricing(last.args.params)
     /\ last.args.supply <= last.args.params.max_supply)
        => \A s1 \in {s \in CalcSupplies \cup {last.args.supply - 1} :
                         0 <= s /\ s < last.args.supply} :
              With(price_at_supply(s1, last.args.params), LAMBDA p1 :
                   p1.ok => p1.v <= last.res.v)

(* C15 witness: a price above the base price, at a supply whose exponent   *)
(* has several bits, defined together with the price one token below it    *)
C15_Witness ==
    /\ last.op = "price_at_supply"
    /\ last.res.ok
    /\ ValidPricing(last.args.params)
    /\ last.args.supply >= 12
    /\ last.args.supply <= last.args.params.max_supply
    /\ last.res.v > last.args.params.base_price
    /\ price_at_supply(last.args.supply - 1, last.args.params).ok

SupplyCapExceeded(res) ==
    ~res.ok /\ res.err = "Purchase would exceed maximum supply"

(* C16 as stated: calculate_buy_price, of either implementation, returns   *)
(* the supply-cap error for every q > 0 with current_supply + q above      *)
(* max_supply, and only then.                                              *)
C16_CapErrorWheneverAbove ==
    last.op = "calculate_buy_price"
        => (SupplyCapExceeded(last.res)
              <=> /\ last.args.tokens > 0
                  /\ last.args.current_supply + last.args.tokens
                        > last.args.params.max_supply)

(* C16: calculate_buy_price, of either implementation, returns the         *)
(* supply-cap error exactly when q > 0 and current_supply + q fits a u128  *)
(* and is above max_supply; when the sum does not fit a u128 the call      *)
(* fails with the overflow error of the checked addition.                  *)
C16_CapErrorWhenSumFits ==
    last.op = "calculate_buy_price"
        => LET sum == last.args.current_supply + last.args.tokens
           IN  /\ SupplyCapExceeded(last.res)
                     <=> /\ last.args.tokens > 0
                         /\ sum <= U128_MAX
                         /\ sum > last.args.params.max_supply
               /\ (last.args.tokens > 0 /\ sum > U128_MAX)
                     => ~last.res.ok /\ last.res.err = "overflow"

(* C16 witness: the purchase of one token more than the maximum supply     *)
(* allows is refused by OptimizedBondingCurve::calculate_buy_price         *)
C16_Witness ==
    /\ last.op = "calculate_buy_price"
    /\ last.args.optimized
    /\ last.args.current_supply > 0
    /\ last.args.current_supply + last.args.tokens = last.args.params.max_supply + 1
    /\ SupplyCapExceeded(last.res)

(* C17: for every supply and all parameters, calculate_buy_price and      *)
(* calculate_sell_price of no tokens return 0 without error, in both       *)
(* implementations.                                                        *)
C17_ZeroQuantity ==
    (last.op \in {"calculate_buy_price", "calculate_sell_price"}
     /\ last.args.tokens = 0)
        => last.res = Ok(0)

(* C17 witness: calculate_buy_price of no tokens at a supply above the     *)
(* maximum supply                                                          *)
C17_Witness ==
    /\ last.op = "calculate_buy_price"
    /\ ~last.args.optimized
    /\ last.args.tokens = 0
    /\ last.args.current_supply > last.args.params.max_supply
    /\ last.res = Ok(0)

InsufficientSupply(res) ==
    ~res.ok /\ res.err = "Cannot sell more tokens than current supply"

(* C18: calculate_sell_price, of either implementation, fails with the     *)
(* insufficient-supply error whenever the quantity is above the current    *)
(* supply; and a sell_tokens call, of either contract, with a token amount *)
(* above the stored supply fails and leaves the stored supply and the      *)
(* stored reserves as they were.                                           *)
C18_OversellRejected ==
    [][/\ (last'.op = "calculate_sell_price"
            /\ last'.args.tokens > last'.args.current_supply)
              => InsufficientSupply(last'.res)
       /\ (last'.op = "sell_tokens" /\ last'.args.token_amount > store.totalsupply)
              => /\ ~last'.res.ok
                 /\ store'.totalsupply = store.totalsupply
                 /\ store'.base_reserves = store.base_reserves]_vars

(* C18 witness: on a curve with tokens sold and reserves, a sell of more   *)
(* tokens than exist whose payout passes the reserve check (the product    *)
(* wrapped) is stopped at the burn                                         *)
C18_Witness ==
    /\ last.op = "sell_tokens"
    /\ last.args.token_amount > last.pre.totalsupply
    /\ last.pre.totalsupply > 0
    /\ last.pre.base_reserves > 0
    /\ last.res.err = "Cannot burn more tokens than exist"
    /\ store.totalsupply = last.pre.totalsupply

(* The return of a sale before any discount: the sum or the trapezoid of   *)
(* CurveCalculator, and for OptimizedBondingCurve its own cost of buying   *)
(* the same tokens back from the supply the sale leaves                    *)
TheoreticalReturn(a) ==
    LET new_supply == a.current_supply - a.tokens
    IN  IF a.optimized
        THEN OptCalculateBuyPrice(a.cache, new_supply, a.tokens,
                                  [a.params EXCEPT !.max_supply = U128_MAX]).res
        ELSE IF a.tokens <= 100 \/ new_supply < 1000
             THEN calculate_precise_sell_return(new_supply, a.tokens, a.params)
        ELSE With(price_at_supply_fixed_point(new_supply, a.params), LAMBDA start_price :
             With(price_at_supply_fixed_point(a.current_supply - 1, a.params),
                  LAMBDA end_price :
             TrapezoidTotal(start_price, end_price, a.tokens)))

(* C19: for every sale of q > 0 tokens whose theoretical return is         *)
(* defined, every implementation of calculate_sell_price pays              *)
(* floor(theoretical * 98 / 100), the discount taken from the integrated   *)
(* total.  OptimizedBondingCurve takes 1% from the price per token before  *)
(* it multiplies by the quantity, and CurveCalculator multiplies by 98     *)
(* unchecked.                                                              *)
C19_DiscountAfterIntegral ==
    (/\ last.op = "calculate_sell_price"
     /\ last.args.tokens > 0
     /\ last.args.tokens <= last.args.current_supply)
        => With(TheoreticalReturn(last.args), LAMBDA theoretical :
                theoretical.ok => last.res = Ok(PctOf(theoretical.v, 98)))

(* The market cap of the criteria, where the price is defined and its      *)
(* product with the supply fits a u128                                     *)
MarketCapDefined(supply, params) ==
    With(price_at_supply(supply, params), LAMBDA price :
         price.ok /\ MulFits(supply, price.v))

MarketCap(supply, params) ==
    (supply * price_at_supply(supply, params).v) \div PRECISION

FarThresholdParams ==
    [base_price |-> 1, growth_rate |-> 0, graduation_threshold |-> U128_MAX,
     base_token |-> BUSD, max_supply |-> U128_MAX]

(* C21: check_emergency_graduation is true exactly when the blocks elapsed *)
(* since launch, 0 when the launch block is the later one, are at least    *)
(* 4320 and the supply is at least 1000000 and the reserves at least       *)
(* 100000000; nothing else enters the result.                              *)
C21_EmergencyCriteria ==
    last.op = "check_emergency_graduation"
        => LET elapsed == IF last.args.current_block < last.args.launch_block THEN 0
                          ELSE last.args.current_block - last.args.launch_block
           IN  last.res = Ok(IF /\ elapsed >= 4320
                                /\ last.args.token_supply >= 1000000
                                /\ last.args.base_reserves >= 100000000
                             THEN 1 ELSE 0)

(* C21 witness: exactly 4320 blocks after launch, with the minimum supply  *)
(* and reserves, the emergency criteria are met while the organic criteria *)
(* of a curve with a far threshold are not                                 *)
C21_Witness ==
    /\ last.op = "check_emergency_graduation"
    /\ last.args.current_block - last.args.launch_block = 4320
    /\ last.args.token_supply = 1000000
    /\ last.args.base_reserves = 100000000
    /\ last.res = Ok(1)
    /\ check_graduation_criteria(last.args.token_supply, last.args.base_reserves,
                                 FarThresholdParams) = Ok(0)

(* C22: no call ends in an arithmetic panic, and a get_buy_quote or        *)
(* get_sell_quote of BondingCurveToken whose product token_amount *        *)
(* base_price does not fit a u128 returns an error, never a value.  The    *)
(* code multiplies with the unchecked operator: a build with overflow      *)
(* checks panics and a build without returns the wrapped product.          *)
C22_OverflowIsAnError ==
    /\ ~IsPanic(last.res)
    /\ (/\ contract = "token"
        /\ last.op \in {"get_buy_quote", "get_sell_quote"}
        /\ last.pre.curve_params # << >>
        /\ ~MulFits(last.args.token_amount, last.pre.curve_params[1].base_price))
          => ~last.res.ok

(* C23: with a growth rate of 1500 bps, calculate_buy_price(0, 1000)      *)
(* succeeds and returns more than 1000 times the base price.  The          *)
(* purchase is summed token by token, and the power of 1.15 leaves the     *)
(* word long before the thousandth token: the call fails with the overflow *)
(* error.                                                                  *)
C23_ScenarioBuyCost ==
    (/\ last.op = "calculate_buy_price"
     /\ ~last.args.optimized
     /\ last.args.current_supply = 0
     /\ last.args.tokens = 1000
     /\ last.args.params.growth_rate = 1500
     /\ last.args.params.max_supply >= 1000)
        => /\ last.res.ok
           /\ last.res.v > 1000 * last.args.params.base_price

(* What a buy_tokens or sell_tokens call computes for the caller before    *)
(* it compares it with the caller's bound: the tokens to mint, or the      *)
(* payout.  An error where the handler stops before the comparison.        *)
ComputedForCaller(st, op, args) ==
    IF contract = "token"
    THEN IF st.graduated # 0 \/ st.curve_params = << >> THEN Err("not computed")
         ELSE IF op = "buy_tokens" THEN Ok(args.min_tokens_out)
         ELSE Mul(args.token_amount, st.curve_params[1].base_price)
    ELSE IF OptIsGraduated(st) THEN Err("not computed")
         ELSE IF op = "buy_tokens"
              THEN IF args.base_input = << >> THEN Err("not computed")
                   ELSE calculate_tokens_for_base_amount(st.price_cache, st.totalsupply,
                            args.base_input[1], OptGetCurveParams(st)).res
         ELSE OptCalculateSellPrice(st.price_cache, st.totalsupply, args.token_amount,
                                    OptGetCurveParams(st)).res

CallerBound(op, args) ==
    IF op = "buy_tokens" THEN args.min_tokens_out ELSE args.min_base_out

(* C24: a buy_tokens call whose tokens to mint are fewer than              *)
(* min_tokens_out, and a sell_tokens call whose payout is less than        *)
(* min_base_out, fails with the slippage error and leaves the stored       *)
(* supply and the stored reserves as they were, on both contracts.         *)
C24_SlippageRejected ==
    [][(/\ last'.op \in {"buy_tokens", "sell_tokens"}
        /\ With(ComputedForCaller(store, last'.op, last'.args), LAMBDA computed :
                computed.ok /\ computed.v < CallerBound(last'.op, last'.args)))
        => /\ last'.res = Err("Slippage exceeded")
           /\ store'.totalsupply = store.totalsupply
           /\ store'.base_reserves = store.base_reserves]_vars

(* C24 witness: on a curve with tokens sold and reserves that cover the    *)
(* payout, a sale whose payout is below min_base_out is refused            *)
C24_Witness ==
    /\ last.op = "sell_tokens"
    /\ last.pre.totalsupply >= last.args.token_amount
    /\ last.args.token_amount > 0
    /\ last.pre.base_reserves > 0
    /\ last.res = Err("Slippage exceeded")
    /\ store.totalsupply = last.pre.totalsupply
    /\ store.base_reserves = last.pre.base_reserves

InsufficientReserves(res) == res = Err("Insufficient reserves for sell")

(* C25 as stated: every sell_tokens call whose payout exceeds the stored   *)
(* reserves fails with the insufficient-reserves error.                    *)
C25_InsufficientReservesError ==
    [][(/\ last'.op = "sell_tokens"
        /\ With(ComputedForCaller(store, "sell_tokens", last'.args), LAMBDA payout :
                payout.ok /\ payout.v > store.base_reserves))
        => InsufficientReserves(last'.res)]_vars

(* C25: a sell_tokens call whose payout exceeds the stored reserves fails  *)
(* and leaves the stored supply and reserves as they were; the error is    *)
(* the insufficient-reserves error when the payout meets min_base_out and  *)
(* the slippage error when it does not; and a successful sell pays no more *)
(* than the reserves held before it.                                       *)
C25_OverdrawRejected ==
    [][last'.op = "sell_tokens"
        => /\ With(ComputedForCaller(store, "sell_tokens", last'.args), LAMBDA payout :
                   (payout.ok /\ payout.v > store.base_reserves)
                     => /\ last'.res = IF payout.v < last'.args.min_base_out
                                        THEN Err("Slippage exceeded")
                                        ELSE Err("Insufficient reserves for sell")
                        /\ store'.totalsupply = store.totalsupply
                        /\ store'.base_reserves = store.base_reserves)
           /\ last'.res.ok => last'.res.v <= store.base_reserves]_vars

(* C25 witness: a curve holding reserves refuses a sale whose payout is    *)
(* above them                                                              *)
C25_Witness ==
    /\ last.op = "sell_tokens"
    /\ last.pre.base_reserves > 0
    /\ last.pre.totalsupply > 0
    /\ InsufficientReserves(last.res)
    /\ store.totalsupply = last.pre.totalsupply
    /\ store.base_reserves = last.pre.base_reserves

(* C26: after a successful BondingCurveToken::initialize the supply is 0,  *)
(* the reserves are 0, the curve is not graduated, the pool reference is   *)
(* 0, and the stored curve parameters are the base price, growth rate,     *)
(* graduation threshold, base token and maximum supply of the call.        *)
C26_InitialState ==
    (contract = "token" /\ last.op = "initialize" /\ last.res.ok)
        => /\ store.totalsupply = 0
           /\ store.base_reserves = 0
           /\ store.graduated = 0
           /\ store.amm_pool = 0
           /\ store.curve_params
                = <<[base_price |-> last.args.base_price,
                     growth_rate |-> last.args.growth_rate,
                     graduation_threshold |-> last.args.graduation_threshold,
                     base_token |-> IF last.args.base_token_type = 0 THEN BUSD ELSE FrBtc,
                     max_supply |-> last.args.max_supply]>>

(* C26 witness: a successful initialize for frBTC whose base price differs *)
(* from its graduation threshold                                           *)
C26_Witness ==
    /\ contract = "token"
    /\ last.op = "initialize"
    /\ last.res.ok
    /\ last.args.base_token_type = 1
    /\ last.args.base_price # last.args.graduation_threshold
    /\ store.curve_params # << >>

(* C27: every curve that was successfully initialized, through either     *)
(* initialize entry point, stores a growth rate of at most 10000 basis     *)
(* points, a positive maximum supply and a positive base price.            *)
C27_StoredParamsValid ==
    (last.op = "initialize" /\ last.res.ok /\ store.curve_params # << >>)
        => /\ store.curve_params[1].growth_rate >= 0
           /\ store.curve_params[1].growth_rate <= BASIS_POINTS
           /\ store.curve_params[1].max_supply > 0
           /\ store.curve_params[1].base_price > 0

(* C28: only the factory admin changes the factory fee or collects the     *)
(* accumulated fees: set_factory_fee_handler and collect_fees called by    *)
(* anyone else fail and leave factory_fee and accumulated_fees as they     *)
(* were.                                                                   *)
C28_AdminOnly ==
    (/\ contract = "factory"
     /\ last.op \in {"set_factory_fee_handler", "collect_fees"}
     /\ last.args.caller # FactoryAdmin)
        => /\ ~last.res.ok
           /\ store.factory_fee = last.pre.factory_fee
           /\ store.accumulated_fees = last.pre.accumulated_fees

(* C29: the price cache is a memoization: after any earlier price query,   *)
(* calculate_price_at_supply(s, params) returns what the uncached          *)
(* optimized_price_calculation(s, params) returns, so a price cached for   *)
(* one supply is never returned for another supply of its 1000-unit        *)
(* bucket.                                                                 *)
C29_CacheIsMemoization ==
    last.op = "calculate_price_at_supply"
        => last.res = optimized_price_calculation(last.args.supply, last.args.params)

(* C30: price_at_supply(0, params) is base_price, and for valid parameters *)
(* and supply > 0 the price is defined and at most MAX_PRICE: growth past  *)
(* the ceiling gives the clamped value, never an overflow error.           *)
C30_PriceClamped ==
    (last.op = "price_at_supply" /\ ValidPricing(last.args.params))
        => IF last.args.supply = 0
           THEN last.res = Ok(last.args.params.base_price)
           ELSE last.res.ok /\ last.res.v <= MAX_PRICE

(* PRECISION multiplied n times by base_power, divided by PRECISION after  *)
(* each multiplication                                                     *)
RECURSIVE RepeatedPower(_, _, _)
RepeatedPower(result, base_power, n) ==
    IF n = 0 THEN Ok(result)
    ELSE IF ~MulFits(result, base_power) THEN Err("overflow")
    ELSE RepeatedPower((result * base_power) \div PRECISION, base_power, n - 1)

(* C31: fixed_point_power(base, 0, denom) is PRECISION, and for exponents   *)
(* 1 to 20 the square-and-multiply result equals the repeated              *)
(* multiplication of PRECISION by base * PRECISION / denom with the same   *)
(* truncation, where both are defined.                                     *)
C31_PowerMatchesRepeated ==
    last.op = "fixed_point_power"
        => IF last.args.exponent = 0 THEN last.res = Ok(PRECISION)
           ELSE With(RepeatedPower(PRECISION,
                         (last.args.base * PRECISION) \div last.args.denominator,
                         last.args.exponent), LAMBDA repeated :
                (last.res.ok /\ repeated.ok) => last.res.v = repeated.v)

(* The unit price of an implementation: CurveCalculator's, or the uncached *)
(* one of OptimizedBondingCurve                                            *)
UnitPrice(optimized, supply, params) ==
    IF optimized THEN optimized_price_calculation(supply, params)
    ELSE price_at_supply(supply, params)

(* total plus the unit prices at from_supply, ..., from_supply + count - 1 *)
RECURSIVE SumOfPrices(_, _, _, _, _)
SumOfPrices(total, optimized, from_supply, count, params) ==
    IF count = 0 THEN Ok(total)
    ELSE With(UnitPrice(optimized, from_supply, params), LAMBDA price :
         IF ~price.ok THEN price
         ELSE IF total + price.v > U128_MAX THEN Err("overflow")
         ELSE SumOfPrices(total + price.v, optimized, from_supply + 1, count - 1, params))

(* The buy cost by the rule: the exact sum for q <= 100 or a supply below  *)
(* 1000, and floor((first price + last price) / 2) * q otherwise           *)
RuleBuyCost(optimized, current_supply, q, params) ==
    IF q <= 100 \/ current_supply < 1000
    THEN SumOfPrices(0, optimized, current_supply, q, params)
    ELSE With(UnitPrice(optimized, current_supply, params), LAMBDA first :
         With(UnitPrice(optimized, current_supply + q - 1, params), LAMBDA final :
         IF ~first.ok THEN first
         ELSE IF ~final.ok THEN final
         ELSE checked_mul((first.v + final.v) \div 2, q)))

(* The buys whose exact sum has at most MaxLoop terms, or none *)
RuleChecked(current_supply, q) ==
    q <= MaxLoop \/ (q > 100 /\ current_supply >= 1000)

(* C32: a buy of q > 0 units within the cap costs the exact sum of the unit *)
(* prices when q <= 100 or current_supply < 1000, and otherwise            *)
(* floor((price(current_supply) + price(current_supply + q - 1)) / 2) * q, *)
(* in CurveCalculator and in OptimizedBondingCurve alike.                  *)
C32_BuyCostRule ==
    (/\ last.op = "calculate_buy_price"
     /\ last.args.cache = << >>
     /\ last.args.tokens > 0
     /\ last.args.tokens <= last.args.params.max_supply
     /\ last.args.current_supply <= last.args.params.max_supply - last.args.tokens
     /\ RuleChecked(last.args.current_supply, last.args.tokens))
        => With(RuleBuyCost(last.args.optimized, last.args.current_supply,
                            last.args.tokens, last.args.params), LAMBDA rule :
           (last.res.ok /\ rule.ok) => last.res.v = rule.v)

(* C33: calculate_pool_ratios(supply, reserves, params) returns            *)
(* token_liquidity = floor(supply * 20 / 100), which is floor(supply / 5), *)
(* and base_liquidity = min(floor(token_liquidity * price_at_supply(supply) *)
(* / PRECISION), reserves), so that for all inputs token_liquidity <=      *)
(* supply and base_liquidity <= reserves.                                  *)
C33_PoolRatios ==
    last.op = "calculate_pool_ratios"
        => /\ last.res.ok
           /\ last.res.token_liquidity = last.args.token_supply \div 5
           /\ last.res.token_liquidity <= last.args.token_supply
           /\ last.res.base_liquidity <= last.args.base_reserves
           /\ With(price_at_supply(last.args.token_supply, last.args.params),
                   LAMBDA price :
                (price.ok /\ MulFits(last.res.token_liquidity, price.v))
                    => last.res.base_liquidity
                         = Min((last.res.token_liquidity * price.v) \div PRECISION,
                               last.args.base_reserves))

PoolVerificationFailed == "Pool creation verification failed"

(* The attempt gets as far as creating the pool: with an AMM whose every   *)
(* answer is the expected one it creates it                                *)
PoolAttempted(st) ==
    \E k \in DOMAIN TokenGraduate(st, AmmOk(1, 1)).trace :
        TokenGraduate(st, AmmOk(1, 1)).trace[k] = "create_pool"

(* The AMM creates a pool that reports another pair, or that it is not     *)
(* initialized                                                             *)
PoolNotAsExpected(amm) ==
    /\ amm.create_ok
    /\ amm.at_ok
    /\ amm.pair \notin {"expected", "swapped"} \/ ~amm.initialized

C35_NoFallbackPrice ==
    /\ (/\ last.op = "check_graduation_criteria"
        /\ ~price_at_supply(last.args.current_supply, last.args.params).ok
        /\ last.args.base_reserves < last.args.params.graduation_threshold \div 2)
            => last.res # Ok(1)
    /\ (/\ last.op = "calculate_pool_ratios"
        /\ ~price_at_supply(last.args.token_supply, last.args.params).ok)
            => ~last.res.ok

(* C36: an initialize that fails on a contract that was not initialized    *)
(* changes nothing in the storage and leaves the contract uninitialized,   *)
(* so that a later initialize with valid arguments can succeed.            *)
C36_FailedInitializeChangesNothing ==
    (last.op = "initialize" /\ ~last.res.ok /\ ~last.pre.initialized)
        => store = last.pre /\ ~store.initialized

(* C37: the tokens that OptimizedBondingCurve::buy_tokens mints for a paid *)
(* base amount B never cost more than B: calculate_buy_price of the        *)
(* supply before the buy and the minted quantity, where defined, is at     *)
(* most B.                                                                 *)
C37_MintedCostWithinPayment ==
    (/\ contract = "optimized"
     /\ last.op = "buy_tokens"
     /\ last.res.ok)
        => With(OptCalculateBuyPrice(<< >>, last.pre.totalsupply, last.res.v,
                                     OptGetCurveParams(last.pre)).res, LAMBDA cost :
           cost.ok => cost.v <= last.args.base_input[1])

(* C38: for s + q <= max_supply, selling q tokens at supply s + q pays at  *)
(* most what buying them at supply s cost, in CurveCalculator and in       *)
(* OptimizedBondingCurve, where both amounts are defined.                  *)
C38_SellBackWithinCost ==
    (/\ last.op = "buy_then_sell"
     /\ last.res.v.buy.ok
     /\ last.res.v.sell.ok)
        => last.res.v.sell.v <= last.res.v.buy.v

(* C38 witness: more than 100 tokens bought at a supply of at least 1000   *)
(* by CurveCalculator and sold back for less, but not for nothing          *)
C38_Witness ==
    /\ last.op = "buy_then_sell"
    /\ ~last.args.optimized
    /\ last.args.tokens > 100
    /\ last.args.current_supply >= 1000
    /\ last.res.v.buy.ok
    /\ last.res.v.sell.ok
    /\ last.res.v.sell.v > 0
    /\ last.res.v.sell.v < last.res.v.buy.v

(* C39: the LP tokens of a graduation are split by the strategy that was   *)
(* selected at initialization: when a successful graduation follows the    *)
(* successful initialize, the buckets that distribute_lp_tokens makes of   *)
(* the LP tokens received have that strategy's percentages.                *)
C39_SelectedStrategyApplied ==
    [][(/\ contract = "token"
        /\ last.op = "initialize"
        /\ last.res.ok
        /\ last'.op = "graduate"
        /\ last'.res.ok)
          => LET T == last'.args.amm.lp
                 pcts == StrategyPcts(last.args.lp_distribution_strategy)
                 b == distribute_lp_tokens(T).buckets
             IN  /\ Len(b) = Len(pcts) + 1
                 /\ \A i \in 1..Len(pcts) : b[i].amount = PctOf(T, pcts[i])]_vars

(* An AMM that creates the pool asked for and returns LP tokens that can   *)
(* be distributed                                                          *)
CooperatingAmm(amm) ==
    /\ amm.create_ok
    /\ amm.at_ok
    /\ amm.pair = "expected"
    /\ amm.initialized
    /\ amm.add_ok
    /\ amm.lp > 0
    /\ MulFits(amm.lp, 80)

(* The emergency criterion holds of the storage once the emergency period  *)
(* has elapsed                                                             *)
EmergencyCriterion(st) ==
    check_emergency_graduation(EmergencyThreshold, 0, st.totalsupply, st.base_reserves)

(* C40: a curve that is not graduated, meets the emergency criterion after *)
(* the emergency period and does not meet the organic criteria, graduates  *)
(* when graduation is attempted with a cooperating AMM.                    *)
C40_EmergencyGraduation ==
    (/\ contract = "token"
     /\ last.op = "graduate"
     /\ last.pre.graduated = 0
     /\ last.pre.curve_params # << >>
     /\ CooperatingAmm(last.args.amm)
     /\ EmergencyCriterion(last.pre)
     /\ check_graduation_criteria(last.pre.totalsupply, last.pre.base_reserves,
                                  last.pre.curve_params[1]) # Ok(1))
        => last.res.ok /\ store.graduated = 1

=============================================================================
